---- MODULE Spec2Model ----
(***************************************************************************)
(* Portfolio Ledger of the yield farming bot (src/portfolioManager.js),    *)
(* driven through its public operations enterPosition, exitPosition,       *)
(* updatePosition and getPortfolioSummary, with the audit log that the     *)
(* bot hands to it as actionLogger (src/yieldFarmingBot.js, logAction).    *)
(*                                                                         *)
(* Numbers.  The code computes in IEEE doubles.  A double is modelled as   *)
(* a record [k, v]: a finite value Fin(n), an infinity (v is its sign) or  *)
(* NaN.  Finite money is an integer count of 1/MoneyScale dollars and a    *)
(* finite percentage an integer count of 1/PctScale percent; the scales    *)
(* are chosen so that every division the code makes on the inputs of this  *)
(* model is exact (ExactArithmetic), i.e. rounding error is abstracted     *)
(* but division by zero is not.                                            *)
(***************************************************************************)
EXTENDS Integers, Naturals, Sequences, FiniteSets, TLC

\* ------------------------------------------------------------------ bounds
\* number of positions ever created in a run (uuid values handed out)
MaxIds == 2
\* the most pools one call of fetchRaydiumPools returns
MaxFetched == 2
\* the most actions logged in the check of the audit log
MaxLogged == 1003
\* the most calls in progress of one cadence of the bot
MaxCycles == 2
\* the most failed events the loops of the bot log
MaxLoopEvents == 2
\* the timers of one cadence that are followed
MaxTimers == 2

\* ------------------------------------------------------- units and inputs
\* the 24 of "/ 100 / 365 / 24": hours per day
HoursPerDay == 24
\* entryApy / 100 / 365 / 24 is entryApy / HoursPerYearPct
HoursPerYearPct == 100 * 365 * HoursPerDay
\* money units per dollar, percentage units per percent
MoneyScale == HoursPerYearPct \div 120
PctScale == MoneyScale \div 100
\* yield units per percent of annualized yield (yields have one decimal)
ApyScale == 10
\* price units per unit of quoted price
PriceScale == 5
\* the readings of the clock in a run, in hours since the construction
ClockReadings == {0, HoursPerDay}

PoolIds == {"poolA", "poolB"}
\* quoted prices of the pools offered for entry; 0 is what the data
\* service substitutes for a missing price
EntryPrices == {0, PriceScale}
\* quoted prices of the later snapshots of a pool: 0 and 1.2
Prices == {0, (12 * PriceScale) \div 10}
\* annualized yields (validated to be >= 0 before entry): 20%
Apys == {20 * ApyScale}
ExitReasons == {"take_profit"}

\* configurations
PositionSizes == {2 * MoneyScale}
InitialCashes == {4 * MoneyScale}

\* ------------------------------------------------------------ IEEE doubles
Fin(n) == [k |-> "fin", v |-> n]
PInf == [k |-> "inf", v |-> 1]
NInf == [k |-> "inf", v |-> -1]
NaN == [k |-> "nan", v |-> 0]

Sign(n) == IF n > 0 THEN 1 ELSE IF n < 0 THEN -1 ELSE 0

IsFin(a) == a.k = "fin"
IsNaN(a) == a.k = "nan"

Neg(a) == [k |-> a.k, v |-> -a.v]

\* a + b
Add(a, b) ==
    IF IsNaN(a) \/ IsNaN(b) THEN NaN
    ELSE IF a.k = "inf" /\ b.k = "inf" THEN (IF a.v = b.v THEN a ELSE NaN)
    ELSE IF a.k = "inf" THEN a
    ELSE IF b.k = "inf" THEN b
    ELSE Fin(a.v + b.v)

\* a - b
Sub(a, b) == Add(a, Neg(b))

\* a < b, a >= b, a > b: every comparison with NaN is false
Lt(a, b) ==
    /\ ~IsNaN(a)
    /\ ~IsNaN(b)
    /\ IF a.k = "inf" /\ b.k = "inf" THEN a.v < b.v
       ELSE IF a.k = "inf" THEN a.v < 0
       ELSE IF b.k = "inf" THEN b.v > 0
       ELSE a.v < b.v

Ge(a, b) == ~IsNaN(a) /\ ~IsNaN(b) /\ ~Lt(a, b)

Gt(a, b) == Lt(b, a)

\* Math.min(a, b)
Min(a, b) == IF IsNaN(a) \/ IsNaN(b) THEN NaN ELSE IF Lt(b, a) THEN b ELSE a

\* a * b
Mul(a, b) ==
    IF IsNaN(a) \/ IsNaN(b) THEN NaN
    ELSE IF a.k = "inf" \/ b.k = "inf"
         THEN (IF Sign(a.v) * Sign(b.v) = 0 THEN NaN
               ELSE [k |-> "inf", v |-> Sign(a.v) * Sign(b.v)])
    ELSE Fin(a.v * b.v)

\* a * (num / den) for a double a and integers num, den with den > 0
MulRat(a, num, den) ==
    IF IsNaN(a) THEN NaN
    ELSE IF a.k = "inf"
         THEN (IF num = 0 THEN NaN ELSE [k |-> "inf", v |-> a.v * Sign(num)])
    ELSE Fin((a.v * num) \div den)

\* num / 0 for an integer num
DivZero(num) == IF num = 0 THEN NaN ELSE [k |-> "inf", v |-> Sign(num)]

\* (a / b) * 100, a ratio of two amounts of money as a percentage
PercentOf(a, b) ==
    IF IsNaN(a) \/ IsNaN(b) THEN NaN
    ELSE IF b.k = "inf" THEN (IF a.k = "inf" THEN NaN ELSE Fin(0))
    ELSE IF b.v = 0 THEN DivZero(a.v)
    ELSE IF a.k = "inf" THEN [k |-> "inf", v |-> a.v * Sign(b.v)]
    ELSE Fin((a.v * 100 * PctScale) \div b.v)

\* --------------------------------------------------------------- state
VARIABLES
    config,      \* BotConfig, shared by the ledger and the evaluator
    portfolio,   \* PortfolioManager.portfolio; the lists hold position ids
    positions,   \* the Position objects, indexed by id (creation order)
    actions,     \* YieldFarmingBot.actions, the audit log behind actionLogger
    now,         \* Date.now(), in hours
    lastCall,    \* the latest ledger call and what it returned
    scoring,     \* the latest call of the PoolEvaluator and what it returned
    poolCache,   \* YieldFarmingBot.poolCache: the pool records seen so far
    monitor,     \* PoolMonitor: its poolCache and its watchlist
    bot          \* YieldFarmingBot: demoMode, apiFailureCount, the scan in progress

vars == <<config, portfolio, positions, actions, now, lastCall,
          scoring, poolCache, monitor, bot>>

\* the state outside the ledger and its audit log
botVars == <<scoring, poolCache, monitor, bot>>

\* the aggregates of a call that returns no summary
NoSummary ==
    [totalValue |-> NaN, totalPnl |-> NaN, totalPnlPercentage |-> NaN,
     totalInvested |-> NaN, availableCash |-> NaN]

\* the statistics of a call that returns none
NoStats ==
    [totalTrades |-> -1, winningTrades |-> -1, losingTrades |-> -1,
     winRate |-> NaN, avgWin |-> NaN, avgLoss |-> NaN, profitFactor |-> NaN]

NoCall ==
    [op |-> "none", poolId |-> "", id |-> 0, ret |-> 0,
     summary |-> NoSummary, stats |-> NoStats]

\* the value a ledger operation returns: 0 stands for null / false
Null == 0

\* --------------------------------------------------- audit log (the bot)
\* the length the bot keeps of its audit log
MaxActions == 1000

\* a log that keeps its first MaxActions entries
logActionKeepOldest(log, action) ==
    LET l == Append(log, action)
    IN IF Len(l) > MaxActions THEN SubSeq(l, 1, MaxActions) ELSE l

\* YieldFarmingBot.logAction, bound to the ledger as actionLogger
logAction(log, action) ==
    LET l == Append(log, action)
    IN IF Len(l) > MaxActions
       THEN SubSeq(l, Len(l) - MaxActions + 1, Len(l))
       ELSE l

Event(type, poolId, positionId) ==
    [type |-> type, poolId |-> poolId, positionId |-> positionId,
     success |-> TRUE]

\* ------------------------------------------------------ PortfolioManager
\* PortfolioManager.constructor
\* (totalValue, totalPnl and totalPnlPercentage are caches that
\* updatePortfolioMetrics overwrites before every read: they are modelled
\* where they are read, in the summary that getPortfolioSummary returns)
NewPortfolio(cfg, initialCash) ==
    [totalInvested |-> Fin(0),
     activePositions |-> << >>,
     closedPositions |-> << >>,
     availableCash |-> Fin(initialCash),
     maxPositions |-> cfg.maxPositions]

\* DEFAULT_BOT_CONFIG: the entry criteria and the exit criteria
DefaultEntryCriteria ==
    [minApy |-> 20 * ApyScale, minTvl |-> 100, minVolume24h |-> 1000]
DefaultExitCriteria ==
    [exitApyThreshold |-> 10 * ApyScale, stopLossPercentage |-> -15,
     takeProfitPercentage |-> 25, maxHoldingTime |-> 168]

\* the BotConfig objects with the given limits and criteria
BotConfigs(maxPositions, positionSizes, maxTotalInvestments, entries, exits) ==
    {[maxPositions |-> mp, positionSize |-> ps, maxTotalInvestment |-> mi,
      minApy |-> e.minApy, minTvl |-> e.minTvl, minVolume24h |-> e.minVolume24h,
      exitApyThreshold |-> x.exitApyThreshold,
      stopLossPercentage |-> x.stopLossPercentage,
      takeProfitPercentage |-> x.takeProfitPercentage,
      maxHoldingTime |-> x.maxHoldingTime] :
        mp \in maxPositions, ps \in positionSizes, mi \in maxTotalInvestments,
        e \in entries, x \in exits}

\* a pool record and a position that stand for "none"
NoPool ==
    [poolId |-> "", baseAmount |-> 0, quoteAmount |-> 0, tvl |-> 0,
     volume24h |-> 0, apy |-> 0, createdAt |-> 0, lpTokenSupply |-> 0,
     price |-> 0]
NoPosition ==
    [id |-> 0, poolId |-> "", entryTime |-> 0, entryPrice |-> 0,
     entryApy |-> 0, amount |-> Fin(0), currentValue |-> Fin(0),
     currentApy |-> 0, pnl |-> Fin(0), pnlPercentage |-> Fin(0),
     status |-> "", exitTime |-> -1, exitPrice |-> -1, exitReason |-> ""]

\* no call of the evaluator yet
NoScoring ==
    [op |-> "none", pool |-> NoPool, position |-> NoPosition,
     currentPool |-> [apy |-> 0, tvl |-> 0, price |-> 0],
     entry |-> [shouldEnter |-> FALSE, score |-> 0,
                reasons |-> << >>, warnings |-> << >>],
     exit |-> [shouldExit |-> FALSE, reason |-> "", urgency |-> ""]]

\* PoolMonitor: isRunning = false, poolCache = new Map(), watchlist =
\* new Set() (in insertion order); watching is the place of monitorWatchlist
\* in the watchlist, 0 when it is not running
NewMonitor ==
    [isRunning |-> FALSE, poolCache |-> {}, watchlist |-> << >>, watching |-> 0]

\* POOL_SCAN_INTERVAL (30 s) in the unit of the bot's timers, 15 s
POOL_SCAN_INTERVAL == 2

\* YieldFarmingBot: apiFailureCount = 0 and no scan in progress.
\*   scan, validPools: the scan in progress where the pools are modelled:
\*     its place and what it has still to hand to evaluateAndEnterPool;
\*   allPools: the fetched pools, where their deduplication is followed on
\*     its own;
\*   isRunning, monitoringInterval, positionInterval: the flag and how many
\*     timers of each of the two cadences of start() are set;
\*   sinceLastPoolScan: Date.now() - lastPoolScan, counted up to
\*     POOL_SCAN_INTERVAL (lastPoolScan = 0 at the start);
\*   scans, fallbacks, monitors: the calls in progress of scanForNewPools in
\*     its try block, of scanForNewPools in the fallback of its catch block,
\*     and of monitorActivePositions, where the pools are left out;
\*   monitoring: the calls of monitorActivePositions in progress where the
\*     positions are followed: of each call the positions it has still to
\*     visit, out of its copy of the active list;
\*   lastEvent: the latest step of the two cadences.
NewBot(enableDemoMode) ==
    [demoMode |-> enableDemoMode, apiFailureCount |-> 0,
     scan |-> "idle", allPools |-> << >>, validPools |-> << >>,
     isRunning |-> FALSE, monitoringInterval |-> 0,
     positionInterval |-> 0, sinceLastPoolScan |-> POOL_SCAN_INTERVAL,
     scans |-> 0, fallbacks |-> 0, monitors |-> 0, monitoring |-> << >>,
     lastEvent |-> "none"]

Init ==
    /\ config \in BotConfigs({1, 2}, PositionSizes,
                             {2 * MoneyScale, 3 * MoneyScale},
                             {DefaultEntryCriteria}, {DefaultExitCriteria})
    /\ \E initialCash \in InitialCashes :
           portfolio = NewPortfolio(config, initialCash)
    /\ positions = << >>
    /\ actions = << >>
    /\ now = 0
    /\ lastCall = NoCall
    /\ scoring = NoScoring
    /\ poolCache = {}
    /\ monitor = NewMonitor
    /\ bot = NewBot(FALSE)

\* the active Position objects, in list order
ActiveSet == {portfolio.activePositions[i] :
                 i \in 1..Len(portfolio.activePositions)}
ClosedSet == {portfolio.closedPositions[i] :
                 i \in 1..Len(portfolio.closedPositions)}

\* canEnterNewPosition with the position count compared by <=
canEnterNewPositionOffByOne ==
    /\ Len(portfolio.activePositions) <= config.maxPositions
    /\ Ge(portfolio.availableCash, Fin(config.positionSize))
    /\ Lt(portfolio.totalInvested, Fin(config.maxTotalInvestment))

\* canEnterNewPosition without the check of totalInvested
canEnterNewPositionNoInvestmentCap ==
    /\ Len(portfolio.activePositions) < config.maxPositions
    /\ Ge(portfolio.availableCash, Fin(config.positionSize))

\* PortfolioManager.canEnterNewPosition
canEnterNewPosition ==
    /\ Len(portfolio.activePositions) < config.maxPositions
    /\ Ge(portfolio.availableCash, Fin(config.positionSize))
    /\ Lt(portfolio.totalInvested, Fin(config.maxTotalInvestment))

\* hasPositionInPool searching the closed list
hasPositionInPoolClosed(poolId) ==
    \E id \in ClosedSet : positions[id].poolId = poolId

\* PortfolioManager.hasPositionInPool
hasPositionInPool(poolId) ==
    \E id \in ActiveSet : positions[id].poolId = poolId

\* enterPosition allocating all the available cash
EnterSizeAllCash == portfolio.availableCash

\* enterPosition: const positionSize = Math.min(...)
EnterSize == Min(Fin(config.positionSize), portfolio.availableCash)

\* enterPosition: the Position object literal
NewPosition(id, pool, positionSize) ==
    [id |-> id,
     poolId |-> pool.poolId,
     entryTime |-> now,
     entryPrice |-> pool.price,
     entryApy |-> pool.apy,
     amount |-> positionSize,
     currentValue |-> positionSize,
     currentApy |-> pool.apy,
     pnl |-> Fin(0),
     pnlPercentage |-> Fin(0),
     status |-> "active",
     exitTime |-> -1,
     exitPrice |-> -1,
     exitReason |-> ""]

\* a call, its pool or position argument and its return value
Call(op, poolId, id, ret) ==
    [op |-> op, poolId |-> poolId, id |-> id, ret |-> ret,
     summary |-> NoSummary, stats |-> NoStats]

Record(call) == lastCall' = call

\* PortfolioManager.enterPosition(pool), called when the audit log is log;
\* uuid v4 hands out a fresh id
enterPositionLogging(pool, log) ==
    IF ~canEnterNewPosition \/ hasPositionInPool(pool.poolId)
    THEN /\ Record(Call("enter", pool.poolId, 0, Null))
         /\ actions' = log
         /\ UNCHANGED <<config, portfolio, positions, now>>
    ELSE LET id == Len(positions) + 1
             positionSize == EnterSize
         IN /\ id <= MaxIds
            /\ positions' = Append(positions, NewPosition(id, pool, positionSize))
            /\ portfolio' = [portfolio EXCEPT
                   !.activePositions = Append(@, id),
                   !.availableCash = Sub(@, positionSize),
                   !.totalInvested = Add(@, positionSize)]
            /\ actions' = logAction(log, Event("position_entered", pool.poolId, id))
            /\ Record(Call("enter", pool.poolId, 0, id))
            /\ UNCHANGED <<config, now>>

\* PortfolioManager.enterPosition(pool)
enterPosition(pool) == enterPositionLogging(pool, actions)

\* the pools handed to enterPosition: poolA quotes a price, the record of
\* poolB carries none
Pools ==
    {pool \in [poolId : PoolIds, price : EntryPrices, apy : Apys] :
        pool.price = 0 <=> pool.poolId = "poolB"}

EnterPosition ==
    /\ \E pool \in Pools : enterPosition(pool)
    /\ UNCHANGED botVars

\* what the ledger reads of the pool handed to exitPosition / updatePosition
Snapshots == [price : Prices, apy : Apys]

\* (Date.now() - position.entryTime.getTime()) / (1000 * 60 * 60)
timeHeldHours(position) == now - position.entryTime

\* (position.entryApy / 100 / 365 / 24) * timeHeldHours * position.amount
apyGain(position) ==
    MulRat(position.amount, position.entryApy * timeHeldHours(position),
           HoursPerYearPct * ApyScale)

\* ((currentPool.price - position.entryPrice) / position.entryPrice)
\*     * position.amount * (num / den)
priceChange(position, currentPool, num, den) ==
    IF position.entryPrice = 0
    THEN Mul(DivZero(currentPool.price - position.entryPrice),
             MulRat(position.amount, num, den))
    ELSE MulRat(position.amount,
                (currentPool.price - position.entryPrice) * num,
                position.entryPrice * den)

\* exitPosition valuing the position without the price term
ExitValueYieldOnly(position, currentPool) ==
    Add(position.amount, apyGain(position))

\* exitPosition valuing the position with the 50% exposure of updatePosition
ExitValueHalfExposure(position, currentPool) ==
    Add(Add(position.amount, apyGain(position)),
        priceChange(position, currentPool, 1, 2))

\* exitPosition: position.currentValue, with full price exposure
ExitValue(position, currentPool) ==
    Add(Add(position.amount, apyGain(position)),
        priceChange(position, currentPool, 1, 1))

\* exitPosition without the assignment of status
ExitedPositionStillActive(position, currentPool, reason) ==
    LET currentValue == ExitValue(position, currentPool)
        pnl == Sub(currentValue, position.amount)
    IN [position EXCEPT
           !.currentValue = currentValue,
           !.pnl = pnl,
           !.pnlPercentage = PercentOf(pnl, position.amount),
           !.exitTime = now,
           !.exitPrice = currentPool.price,
           !.exitReason = reason]

\* exitPosition: the Position object after the assignments of lines 91-97
ExitedPosition(position, currentPool, reason) ==
    LET currentValue == ExitValue(position, currentPool)
        pnl == Sub(currentValue, position.amount)
    IN [position EXCEPT
           !.currentValue = currentValue,
           !.pnl = pnl,
           !.pnlPercentage = PercentOf(pnl, position.amount),
           !.status = "exited",
           !.exitTime = now,
           !.exitPrice = currentPool.price,
           !.exitReason = reason]

\* findIndex whose predicate accepts every active position
findIndexAny(positionId) ==
    IF portfolio.activePositions # << >> THEN 1 ELSE 0

\* findIndex whose -1 is used as an index from the end of the list
findIndexOrLast(positionId) ==
    IF \E i \in 1..Len(portfolio.activePositions) :
           portfolio.activePositions[i] = positionId
    THEN CHOOSE i \in 1..Len(portfolio.activePositions) :
           portfolio.activePositions[i] = positionId
    ELSE Len(portfolio.activePositions)

\* activePositions.findIndex(p => p.id === positionId); 0 stands for -1
findIndex(positionId) ==
    IF \E i \in 1..Len(portfolio.activePositions) :
           portfolio.activePositions[i] = positionId
    THEN CHOOSE i \in 1..Len(portfolio.activePositions) :
           /\ portfolio.activePositions[i] = positionId
           /\ \A j \in 1..(i - 1) : portfolio.activePositions[j] # positionId
    ELSE 0

\* splice(0, 1): removes the head of the list
spliceFirst(seq, positionIndex) == Tail(seq)

\* activePositions.splice(positionIndex, 1)
splice(seq, positionIndex) ==
    SubSeq(seq, 1, positionIndex - 1) \o SubSeq(seq, positionIndex + 1, Len(seq))

\* PortfolioManager.exitPosition(positionId, currentPool, reason), called
\* when the Position objects are held and the audit log is log
exitPositionLogging(positionId, currentPool, reason, held, log) ==
    LET positionIndex == findIndex(positionId)
    IN IF positionIndex = 0
       THEN /\ Record(Call("exit", "", positionId, Null))
            /\ positions' = held
            /\ actions' = log
            /\ UNCHANGED <<config, portfolio, now>>
       ELSE LET id == portfolio.activePositions[positionIndex]
                position == ExitedPosition(held[id], currentPool, reason)
            IN /\ positions' = [held EXCEPT ![id] = position]
               /\ portfolio' = [portfolio EXCEPT
                      !.availableCash = Add(@, position.currentValue),
                      !.totalInvested = Sub(@, position.amount),
                      !.closedPositions = Append(@, id),
                      !.activePositions = splice(@, positionIndex)]
               /\ actions' = logAction(log,
                      Event("position_exited", position.poolId, id))
               /\ Record(Call("exit", "", positionId, 1))
               /\ UNCHANGED <<config, now>>

\* PortfolioManager.exitPosition(positionId, currentPool, reason)
exitPosition(positionId, currentPool, reason) ==
    exitPositionLogging(positionId, currentPool, reason, positions, actions)

ExitPosition ==
    /\ \E positionId \in 1..MaxIds, currentPool \in Snapshots, reason \in ExitReasons :
           exitPosition(positionId, currentPool, reason)
    /\ UNCHANGED botVars

\* updatePosition valuing the position with the full exposure of exitPosition
UpdatedPositionFullExposure(position, currentPool) ==
    LET currentValue == ExitValue(position, currentPool)
        pnl == Sub(currentValue, position.amount)
    IN [position EXCEPT
           !.currentValue = currentValue,
           !.currentApy = currentPool.apy,
           !.pnl = pnl,
           !.pnlPercentage = PercentOf(pnl, position.amount)]

\* updatePosition without the assignments of pnl and pnlPercentage
UpdatedPositionStalePnl(position, currentPool) ==
    [position EXCEPT
        !.currentValue = Add(Add(position.amount, apyGain(position)),
                             priceChange(position, currentPool, 1, 2)),
        !.currentApy = currentPool.apy]

\* updatePosition: the Position object after the assignments of lines 135-138
UpdatedPosition(position, currentPool) ==
    LET currentValue == Add(Add(position.amount, apyGain(position)),
                            priceChange(position, currentPool, 1, 2))
        pnl == Sub(currentValue, position.amount)
    IN [position EXCEPT
           !.currentValue = currentValue,
           !.currentApy = currentPool.apy,
           !.pnl = pnl,
           !.pnlPercentage = PercentOf(pnl, position.amount)]

\* PortfolioManager.updatePosition(position, currentPool)
updatePosition(id, currentPool) ==
    /\ positions' = [positions EXCEPT ![id] = UpdatedPosition(@, currentPool)]
    /\ Record(Call("update", "", id, 1))
    /\ UNCHANGED <<config, portfolio, actions, now>>

\* the callers of this specification re-price the active positions
UpdatePosition ==
    /\ \E id \in ActiveSet, currentPool \in Snapshots :
           updatePosition(id, currentPool)
    /\ UNCHANGED botVars

\* reduce((sum, pos) => sum + pos[field], 0) over a list of positions
RECURSIVE SumField(_, _)
SumField(ids, field) ==
    IF ids = << >> THEN Fin(0)
    ELSE Add(SumField(SubSeq(ids, 1, Len(ids) - 1), field),
             positions[ids[Len(ids)]][field])

\* updatePortfolioMetrics: activeValue
activeValue == SumField(portfolio.activePositions, "currentValue")

\* a total value that grows with the clock
TotalValueAccrued == Add(Add(portfolio.availableCash, activeValue), Fin(now))

\* updatePortfolioMetrics: portfolio.totalValue
TotalValue == Add(portfolio.availableCash, activeValue)

\* updatePortfolioMetrics: portfolio.totalPnl
TotalPnl ==
    Add(SumField(portfolio.activePositions, "pnl"),
        SumField(portfolio.closedPositions, "pnl"))

\* updatePortfolioMetrics: portfolio.totalPnlPercentage
TotalPnlPercentage ==
    LET initialValue == Sub(TotalValue, TotalPnl)
    IN IF Gt(initialValue, Fin(0)) THEN PercentOf(TotalPnl, initialValue)
       ELSE Fin(0)

\* PortfolioManager.getPortfolioSummary: runs updatePortfolioMetrics and
\* returns Object.assign({}, this.portfolio): the numbers of the portfolio
\* are copied into the summary, its two lists are not (SummaryContents)
GetPortfolioSummary ==
    /\ lastCall' = [op |-> "summary", poolId |-> "", id |-> 0, ret |-> 1,
                    summary |-> [totalValue |-> TotalValue,
                                 totalPnl |-> TotalPnl,
                                 totalPnlPercentage |-> TotalPnlPercentage,
                                 totalInvested |-> portfolio.totalInvested,
                                 availableCash |-> portfolio.availableCash],
                    stats |-> NoStats]
    /\ UNCHANGED <<config, portfolio, positions, actions, now>>
    /\ UNCHANGED botVars

\* what the holder of a summary reads in it: the numbers copied when
\* getPortfolioSummary returned it, and summary.activePositions and
\* summary.closedPositions, which are the arrays of the portfolio itself
\* (thePortfolio) holding the Position objects of the ledger as they are when
\* the summary is read (thePositions)
SummaryContents(summary, thePortfolio, thePositions) ==
    [summary |-> summary,
     activePositions |-> [i \in 1..Len(thePortfolio.activePositions) |->
                             thePositions[thePortfolio.activePositions[i]]],
     closedPositions |-> [i \in 1..Len(thePortfolio.closedPositions) |->
                             thePositions[thePortfolio.closedPositions[i]]]]

\* Math.abs(a)
Abs(a) == IF IsFin(a) /\ a.v < 0 THEN Neg(a)
          ELSE IF a.k = "inf" THEN PInf ELSE a

\* the closed positions with a profit, with a loss (filter)
winningTrades == SelectSeq(portfolio.closedPositions,
                           LAMBDA id : Gt(positions[id].pnl, Fin(0)))
losingTrades == SelectSeq(portfolio.closedPositions,
                          LAMBDA id : Lt(positions[id].pnl, Fin(0)))

\* a profit factor that is infinite whenever there is no loss
profitFactorNoLossInfinite(grossProfit, grossLoss) ==
    IF Gt(grossLoss, Fin(0)) THEN PercentOf(grossProfit, grossLoss)
    ELSE PInf

\* getPerformanceStats: profitFactor, as a percentage
profitFactor(grossProfit, grossLoss) ==
    IF Gt(grossLoss, Fin(0)) THEN PercentOf(grossProfit, grossLoss)
    ELSE IF Gt(grossProfit, Fin(0)) THEN PInf
    ELSE Fin(0)

\* PortfolioManager.getPerformanceStats; winRate and profitFactor are
\* percentages (sharpeRatio, a square root, is left out)
getPerformanceStats ==
    LET totalTrades == Len(portfolio.closedPositions)
        grossProfit == SumField(winningTrades, "pnl")
        grossLoss == Abs(SumField(losingTrades, "pnl"))
    IN IF totalTrades = 0
       THEN [totalTrades |-> 0, winningTrades |-> 0, losingTrades |-> 0,
             winRate |-> Fin(0), avgWin |-> Fin(0), avgLoss |-> Fin(0),
             profitFactor |-> Fin(0)]
       ELSE [totalTrades |-> totalTrades,
             winningTrades |-> Len(winningTrades),
             losingTrades |-> Len(losingTrades),
             winRate |-> PercentOf(Fin(Len(winningTrades)), Fin(totalTrades)),
             avgWin |-> IF Len(winningTrades) > 0
                        THEN MulRat(grossProfit, 1, Len(winningTrades))
                        ELSE Fin(0),
             avgLoss |-> IF Len(losingTrades) > 0
                         THEN Abs(MulRat(SumField(losingTrades, "pnl"), 1,
                                         Len(losingTrades)))
                         ELSE Fin(0),
             profitFactor |-> profitFactor(grossProfit, grossLoss)]

GetPerformanceStats ==
    /\ lastCall' = [op |-> "stats", poolId |-> "", id |-> 0, ret |-> 1,
                    summary |-> NoSummary, stats |-> getPerformanceStats]
    /\ UNCHANGED <<config, portfolio, positions, actions, now>>
    /\ UNCHANGED botVars

\* the clock advances between calls
Tick ==
    /\ now' \in ClockReadings
    /\ now' > now
    /\ UNCHANGED <<config, portfolio, positions, actions, lastCall>>
    /\ UNCHANGED botVars

\* ----------------------------------------------------------- PoolEvaluator
\* POOL_EVALUATION of the bot (MIN_LIQUIDITY_RATIO 0.3 is 3 / 10)
POOL_EVALUATION ==
    [MIN_AGE_HOURS |-> 1, MAX_AGE_HOURS |-> 72, MIN_LIQUIDITY_RATIO_TENTHS |-> 3]
\* the score a pool needs to be entered
MinScoreToEnter == 70
\* the yield, in percent, above which a pool is flagged as a possible rug pull
RugPullApy == 100

\* a yield given in tenths of a percent
Tenths(n) == (n * ApyScale) \div 10

\* a <= b
Le(a, b) == Ge(b, a)

\* PoolEvaluator.getPoolAgeHours
getPoolAgeHours(pool) == now - pool.createdAt

\* calculateLiquidityRatio with baseValue = pool.baseToken.amount
calculateLiquidityRatioNoPrice(pool) ==
    LET baseValue == pool.baseAmount * PriceScale
        quoteValue == pool.quoteAmount * PriceScale
        totalValue == baseValue + quoteValue
    IN IF totalValue = 0 THEN [num |-> 0, den |-> 1]
       ELSE [num |-> 2 * (IF baseValue < quoteValue THEN baseValue ELSE quoteValue),
             den |-> totalValue]

\* PoolEvaluator.calculateLiquidityRatio: the ratio as a fraction num / den
\* (values in 1 / PriceScale units of the quote token)
calculateLiquidityRatio(pool) ==
    LET baseValue == pool.baseAmount * pool.price
        quoteValue == pool.quoteAmount * PriceScale
        totalValue == baseValue + quoteValue
    IN IF totalValue = 0 THEN [num |-> 0, den |-> 1]
       ELSE [num |-> 2 * (IF baseValue < quoteValue THEN baseValue ELSE quoteValue),
             den |-> totalValue]

\* a failed gate that returns score 0 and only the reason of the failure
skipZero(score, reasons, warnings) ==
    [shouldEnter |-> FALSE, score |-> 0,
     reasons |-> <<reasons[Len(reasons)]>>, warnings |-> warnings]

\* return { shouldEnter: false, score, reasons, warnings } of a failed gate
skip(score, reasons, warnings) ==
    [shouldEnter |-> FALSE, score |-> score,
     reasons |-> reasons, warnings |-> warnings]

\* the final decision with a strict comparison
decideStrict(score) == score > MinScoreToEnter

\* const shouldEnter = score >= 70
decide(score) == score >= MinScoreToEnter

\* the sequence of the tags whose condition holds, in the order given
RECURSIVE Pushed(_)
Pushed(tagged) ==
    IF tagged = << >> THEN << >>
    ELSE (IF tagged[1][1] THEN <<tagged[1][2]>> ELSE << >>) \o Pushed(Tail(tagged))

\* the bonus for an exceptional yield given below twice the minimum
hasExceptionalApyBelow(pool) == pool.apy < config.minApy * 2

\* if (pool.apy > this.config.minApy * 2)
hasExceptionalApy(pool) == pool.apy > config.minApy * 2

\* PoolEvaluator.evaluatePoolForEntry(pool), compiled variant used by the
\* bot, without its audit event
evaluatePoolForEntry(pool) ==
    LET ageHours == getPoolAgeHours(pool)
        ageOk == ageHours >= POOL_EVALUATION.MIN_AGE_HOURS
                 /\ ageHours <= POOL_EVALUATION.MAX_AGE_HOURS
        liquidityRatio == calculateLiquidityRatio(pool)
        balanced == liquidityRatio.num * 10
                        >= POOL_EVALUATION.MIN_LIQUIDITY_RATIO_TENTHS * liquidityRatio.den
        exceptional == hasExceptionalApy(pool)
        highVolume == pool.volume24h > config.minVolume24h * 5
        extremeApy == pool.apy > RugPullApy * ApyScale
        lowTvl == pool.tvl * 10 < pool.volume24h
        score == 25 + 20 + 20
                 + (IF ageOk THEN 15 ELSE 5)
                 + (IF balanced THEN 10 ELSE 3)
                 + (IF exceptional THEN 10 ELSE 0)
                 + (IF highVolume THEN 5 ELSE 0)
                 - (IF extremeApy THEN 20 ELSE 0)
                 - (IF lowTvl THEN 10 ELSE 0)
    IN IF ~(pool.apy >= config.minApy)
       THEN skip(0, <<"apy_below">>, << >>)
       ELSE IF ~(pool.tvl >= config.minTvl)
       THEN skip(25, <<"apy_ok", "tvl_below">>, << >>)
       ELSE IF ~(pool.volume24h >= config.minVolume24h)
       THEN skip(25 + 20, <<"apy_ok", "tvl_ok", "volume_below">>, << >>)
       ELSE [shouldEnter |-> decide(score),
             score |-> score,
             reasons |-> <<"apy_ok", "tvl_ok", "volume_ok">>
                 \o Pushed(<< <<ageOk, "age_ok">>,
                              <<balanced, "liquidity_ok">>,
                              <<exceptional, "exceptional_apy">>,
                              <<highVolume, "high_volume">> >>),
             warnings |->
                 Pushed(<< <<~ageOk /\ ageHours < POOL_EVALUATION.MIN_AGE_HOURS, "very_new">>,
                           <<~ageOk /\ ~(ageHours < POOL_EVALUATION.MIN_AGE_HOURS), "old">>,
                           <<~balanced, "unbalanced">>,
                           <<extremeApy, "extreme_apy">>,
                           <<lowTvl, "low_tvl">> >>)]

\* POOL_EVALUATION of the typed evaluator that returns a decision
MONITOR_POOL_EVALUATION ==
    [MIN_APY |-> 100 * ApyScale, MIN_TVL |-> 50, MIN_VOLUME_24H |-> 500,
     MIN_AGE_HOURS |-> 1, MAX_AGE_HOURS |-> 72, SWEET_SPOT_AGE_HOURS |-> 24,
     HIGH_INCENTIVE_THRESHOLD |-> 200 * ApyScale,
     HIGH_VOLUME_THRESHOLD |-> 5000, MIN_SCORE_TO_ENTER |-> 100]

\* PoolEvaluator.evaluatePoolForEntry(pool), typed variant: a failed gate
\* returns score 0 and one reason; shouldEnter stands for decision = ENTER
evaluatePoolForEntryTyped(pool) ==
    LET P == MONITOR_POOL_EVALUATION
        ageHours == now - pool.createdAt
        ageOk == ageHours >= P.MIN_AGE_HOURS /\ ageHours <= P.MAX_AGE_HOURS
        sweet == ageOk /\ ageHours <= P.SWEET_SPOT_AGE_HOURS
        fresh == ageOk /\ ageHours <= 12
        ultra == pool.apy >= P.HIGH_INCENTIVE_THRESHOLD
        high == ~ultra /\ pool.apy >= 100 * ApyScale
        highVolume == pool.volume24h >= P.HIGH_VOLUME_THRESHOLD
        goodVolume == ~highVolume /\ pool.volume24h >= P.MIN_VOLUME_24H * 2
        early == pool.tvl < 1000 /\ pool.apy > 150 * ApyScale
        sustainable == pool.apy < 1000 * ApyScale /\ pool.volume24h * 10 > pool.tvl
        score == 30 + 20 + 20
                 + (IF sweet THEN 20 ELSE IF ageOk THEN 10 ELSE 0)
                 + (IF fresh THEN 15 ELSE 0)
                 + (IF ultra THEN 25 ELSE IF high THEN 15 ELSE 0)
                 + (IF highVolume THEN 15 ELSE IF goodVolume THEN 10 ELSE 0)
                 + (IF early THEN 15 ELSE 0)
                 + (IF sustainable THEN 10 ELSE 0)
    IN IF ~(pool.apy >= P.MIN_APY)
       THEN skip(0, <<"apy_below">>, << >>)
       ELSE IF ~(pool.tvl >= P.MIN_TVL)
       THEN skip(0, <<"tvl_below">>, << >>)
       ELSE IF ~(pool.volume24h >= P.MIN_VOLUME_24H)
       THEN skip(0, <<"volume_below">>, << >>)
       ELSE [shouldEnter |-> score >= P.MIN_SCORE_TO_ENTER,
             score |-> score,
             reasons |-> <<"apy_ok", "tvl_ok", "volume_ok">>
                 \o Pushed(<< <<sweet, "age_sweet_spot">>,
                              <<ageOk /\ ~sweet, "age_ok">>,
                              <<fresh, "ultra_fresh">>,
                              <<ultra, "ultra_high_incentive">>,
                              <<high, "high_incentive">>,
                              <<highVolume, "high_volume">>,
                              <<goodVolume, "good_volume">>,
                              <<early, "early_entry">>,
                              <<sustainable, "sustainable">> >>),
             warnings |->
                 Pushed(<< <<~ageOk /\ ageHours < P.MIN_AGE_HOURS, "too_new">>,
                           <<~ageOk /\ ~(ageHours < P.MIN_AGE_HOURS), "too_old">>,
                           <<pool.apy > 1000 * ApyScale, "very_high_apy">> >>)]

\* ((position.entryApy - currentPool.apy) / position.entryApy) * 100 > 50;
\* with entryApy 0 the quotient is -Infinity or NaN and the test is false
apyDeclineAbove50(position, currentPool) ==
    IF position.entryApy > 0
    THEN (position.entryApy - currentPool.apy) * 100 > 50 * position.entryApy
    ELSE IF position.entryApy < 0
    THEN (position.entryApy - currentPool.apy) * 100 < 50 * position.entryApy
    ELSE FALSE

\* the exit rules with take profit checked before stop loss
ExitRulesTakeProfitFirst(position, currentPool) ==
    << <<Ge(position.pnlPercentage, Fin(config.takeProfitPercentage * PctScale)),
         "take_profit", "medium">>,
       <<Le(position.pnlPercentage, Fin(config.stopLossPercentage * PctScale)),
         "stop_loss", "high">>,
       <<currentPool.apy < config.exitApyThreshold, "apy_below_threshold", "medium">>,
       <<now - position.entryTime >= config.maxHoldingTime, "max_holding_time", "low">>,
       <<apyDeclineAbove50(position, currentPool), "apy_decline", "medium">>,
       <<Lt(Fin(currentPool.tvl * MoneyScale), MulRat(position.amount, 10, 1)),
         "low_liquidity", "high">> >>

\* evaluatePositionForExit: the conditions in the order of the if statements
ExitRules(position, currentPool) ==
    << <<Le(position.pnlPercentage, Fin(config.stopLossPercentage * PctScale)),
         "stop_loss", "high">>,
       <<Ge(position.pnlPercentage, Fin(config.takeProfitPercentage * PctScale)),
         "take_profit", "medium">>,
       <<currentPool.apy < config.exitApyThreshold, "apy_below_threshold", "medium">>,
       <<now - position.entryTime >= config.maxHoldingTime, "max_holding_time", "low">>,
       <<apyDeclineAbove50(position, currentPool), "apy_decline", "medium">>,
       <<Lt(Fin(currentPool.tvl * MoneyScale), MulRat(position.amount, 10, 1)),
         "low_liquidity", "high">> >>

\* the result of the first rule that matches, or hold
RECURSIVE FirstMatch(_)
FirstMatch(rules) ==
    IF rules = << >>
    THEN [shouldExit |-> FALSE, reason |-> "hold", urgency |-> "low"]
    ELSE IF rules[1][1]
    THEN [shouldExit |-> TRUE, reason |-> rules[1][2], urgency |-> rules[1][3]]
    ELSE FirstMatch(Tail(rules))

\* PoolEvaluator.evaluatePositionForExit(position, currentPool)
evaluatePositionForExit(position, currentPool) ==
    FirstMatch(ExitRules(position, currentPool))

\* ------------------------------------------------------- the ledger alone
Next ==
    \/ EnterPosition
    \/ ExitPosition
    \/ UpdatePosition
    \/ GetPortfolioSummary
    \/ GetPerformanceStats
    \/ Tick

Spec == Init /\ [][Next]_vars

\* ------------------------------------- the evaluator as a pure function
\* the reading of the clock at the evaluations: 7 days after the start
EvalNow == 7 * HoursPerDay

EntryCriteria ==
    {[minApy |-> 12 * ApyScale, minTvl |-> 100, minVolume24h |-> 500],
     DefaultEntryCriteria}

\* the second configuration sets take profit below stop loss
ExitCriteria ==
    {DefaultExitCriteria,
     [DefaultExitCriteria EXCEPT !.takeProfitPercentage = -20]}

\* yields: 8.5%, 12%, 18.5%, 20%, 40.5%, 100%, 100.5%
EvalApys == {Tenths(85), Tenths(120), Tenths(185), Tenths(200), Tenths(405),
             Tenths(1000), Tenths(1005)}
EvalTvls == {50, 100, 2499, 2500, 75000}
EvalVolumes == {400, 500, 2500, 2501, 25000, 25001}
EvalAges == {0, 1, 2, 72, 73}
EvalReserves == {[base |-> 0, quote |-> 0], [base |-> 10, quote |-> 100],
                 [base |-> 100, quote |-> 100], [base |-> 15, quote |-> 85]}
EvalPrices == {0, PriceScale, 10 * PriceScale}

EvalPools ==
    {[poolId |-> "poolA", baseAmount |-> r.base, quoteAmount |-> r.quote,
      tvl |-> tvl, volume24h |-> volume24h, apy |-> apy,
      createdAt |-> EvalNow - age, lpTokenSupply |-> 0, price |-> price] :
        r \in EvalReserves, tvl \in EvalTvls, volume24h \in EvalVolumes,
        apy \in EvalApys, age \in EvalAges, price \in EvalPrices}

\* P&L percentages of the positions handed to the exit policy
EvalPnlPercentages ==
    {Fin(-20 * PctScale), Fin(-15 * PctScale), Fin(0), Fin(25 * PctScale),
     NaN, PInf}

\* a position as updatePosition leaves it, with the given P&L percentage
HeldPosition(entryTime, entryApy, pnlPercentage) ==
    LET amount == Fin(2 * MoneyScale)
        pnl == IF IsFin(pnlPercentage)
               THEN MulRat(amount, pnlPercentage.v, 100 * PctScale)
               ELSE pnlPercentage
    IN [id |-> 1, poolId |-> "poolA", entryTime |-> entryTime,
        entryPrice |-> PriceScale, entryApy |-> entryApy, amount |-> amount,
        currentValue |-> Add(amount, pnl), currentApy |-> entryApy,
        pnl |-> pnl, pnlPercentage |-> pnlPercentage, status |-> "active",
        exitTime |-> -1, exitPrice |-> -1, exitReason |-> ""]

HeldPositions ==
    {HeldPosition(entryTime, entryApy, pnlPercentage) :
        entryTime \in {0, EvalNow - HoursPerDay},
        entryApy \in {0, 20 * ApyScale, 40 * ApyScale},
        pnlPercentage \in EvalPnlPercentages}

\* what the exit policy reads of the current pool: 5%, 10%, 15%, 20%
ExitSnapshots ==
    [apy : {Tenths(50), Tenths(100), Tenths(150), Tenths(200)},
     tvl : {10, 20, 75000},
     price : {PriceScale}]

InitEval ==
    /\ config \in BotConfigs({2}, PositionSizes, {3 * MoneyScale},
                             EntryCriteria, ExitCriteria)
    /\ \E initialCash \in InitialCashes :
           portfolio = NewPortfolio(config, initialCash)
    /\ positions = << >>
    /\ actions = << >>
    /\ now = EvalNow
    /\ lastCall = NoCall
    /\ scoring = NoScoring
    /\ poolCache = {}
    /\ monitor = NewMonitor
    /\ bot = NewBot(FALSE)

\* one call of evaluatePoolForEntry, with its audit event
EvaluatePoolForEntry ==
    /\ scoring.op = "none"
    /\ \E pool \in EvalPools :
           /\ actions' = logAction(actions, Event("pool_evaluated", pool.poolId, 0))
           /\ scoring' = [scoring EXCEPT !.op = "entry", !.pool = pool,
                              !.entry = evaluatePoolForEntry(pool)]
    /\ UNCHANGED <<config, portfolio, positions, now, lastCall, poolCache, monitor, bot>>

\* one call of the typed evaluatePoolForEntry, with its audit event
EvaluatePoolForEntryTyped ==
    /\ scoring.op = "none"
    /\ \E pool \in EvalPools :
           /\ actions' = logAction(actions, Event("pool_evaluated", pool.poolId, 0))
           /\ scoring' = [scoring EXCEPT !.op = "entryTyped", !.pool = pool,
                              !.entry = evaluatePoolForEntryTyped(pool)]
    /\ UNCHANGED <<config, portfolio, positions, now, lastCall, poolCache, monitor, bot>>

\* one call of evaluatePositionForExit
EvaluatePositionForExit ==
    /\ scoring.op = "none"
    /\ \E position \in HeldPositions, currentPool \in ExitSnapshots :
           scoring' = [scoring EXCEPT !.op = "exit", !.position = position,
                           !.currentPool = currentPool,
                           !.exit = evaluatePositionForExit(position, currentPool)]
    /\ UNCHANGED <<config, portfolio, positions, actions, now, lastCall,
                   poolCache, monitor, bot>>

NextEval ==
    \/ EvaluatePoolForEntry
    \/ EvaluatePoolForEntryTyped
    \/ EvaluatePositionForExit

SpecEval == InitEval /\ [][NextEval]_vars

\* ------------------------------------------- the scan of the YieldFarmingBot
\* the tokens of the pools, and the pool ids for which getPoolMetrics
\* simulates (ids starting with demo_, jupiter_ or birdeye_)
Mints == {"mintA", "BONK", "SOL"}
SyntheticPoolIds == {"jupiter_BONK", "demo_pool_1_high_apy", "demo_pool_3_low_apy"}

\* the sequences over S of length at most n
SeqsUpTo(S, n) == UNION {[1..k -> S] : k \in 0..n}

\* PoolDataService.validatePoolData
validatePoolData(pool) ==
    /\ pool.tvl > 0
    /\ pool.apy >= 0
    /\ pool.volume24h >= 0
    /\ pool.baseAmount >= 0
    /\ pool.quoteAmount >= 0
    /\ pool.lpTokenSupply >= 0

\* the PoolInfo records fetchRaydiumPools can return for pools of one pair of
\* tokens opened two hours ago: its filter lets through tvl > 100, volume > 0
\* and apr > 0; an amount comes from parseFloat and need not be a quantity
\* (-1 stands for a negative number or NaN), and the price is 0 when the API
\* sends none
RaydiumPools(poolIds) ==
    {[poolId |-> poolId, baseMint |-> "mintA", quoteMint |-> "SOL",
      baseAmount |-> baseAmount, quoteAmount |-> 100, tvl |-> 75000,
      volume24h |-> 25000, apy |-> Tenths(200), createdAt |-> now - 2,
      lpTokenSupply |-> 0, price |-> price] :
        poolId \in poolIds, baseAmount \in {-1, 100}, price \in {0, PriceScale}}

\* fetchJupiterData: synthetic pools of the top tokens; one of them, with
\* TVL 15,000 and volume 6,000 (calculateAPY gives 36.5%), 12 hours old
JupiterPools ==
    <<[poolId |-> "jupiter_BONK", baseMint |-> "BONK", quoteMint |-> "SOL",
       baseAmount |-> 1500, quoteAmount |-> 100, tvl |-> 15000,
       volume24h |-> 6000, apy |-> Tenths(365), createdAt |-> now - 12,
       lpTokenSupply |-> 1500000, price |-> PriceScale]>>

\* DEMO_POOLS: demo_pool_1_high_apy and demo_pool_3_low_apy (prices 167.5
\* and 2.5, to the price unit)
DEMO_POOLS ==
    {[poolId |-> "demo_pool_1_high_apy", baseMint |-> "USDC", quoteMint |-> "SOL",
      baseAmount |-> 50000, quoteAmount |-> 300, tvl |-> 75000,
      volume24h |-> 25000, apy |-> Tenths(185), createdAt |-> now - 2,
      lpTokenSupply |-> 1000000, price |-> (1675 * PriceScale) \div 10],
     [poolId |-> "demo_pool_3_low_apy", baseMint |-> "ORCA", quoteMint |-> "SOL",
      baseAmount |-> 80000, quoteAmount |-> 120, tvl |-> 30000,
      volume24h |-> 8000, apy |-> Tenths(85), createdAt |-> now - 6,
      lpTokenSupply |-> 500000, price |-> (25 * PriceScale) \div 10]}

\* getRandomDemoPools(count): count of the demo pools in a random order
getRandomDemoPools(count) ==
    LET n == IF count < Cardinality(DEMO_POOLS) THEN count
             ELSE Cardinality(DEMO_POOLS)
    IN {s \in [1..n -> DEMO_POOLS] : \A i, j \in 1..n : s[i] = s[j] => i = j}

\* fetchCoinGeckoPrices: a USD price for some of the tokens, 0 for the others
CoinGeckoPrices ==
    {[m \in Mints |-> IF m \in priced THEN (IF m = "SOL" THEN 1 ELSE 2) ELSE 0] :
        priced \in SUBSET Mints}

\* scanForNewPools: pool.price = basePrice / quotePrice if both are known
updatePrice(pool, prices) ==
    LET basePrice == prices[pool.baseMint]
        quotePrice == prices[pool.quoteMint]
    IN IF basePrice # 0 /\ quotePrice # 0 /\ quotePrice > 0
       THEN [pool EXCEPT !.price = (basePrice * PriceScale) \div quotePrice]
       ELSE pool

\* YieldFarmingBot.deduplicatePools: one pool per pool id, the later created
\* one, in the order of the first occurrences
RECURSIVE deduplicatePoolsInto(_, _)
deduplicatePoolsInto(uniquePools, pools) ==
    IF pools = << >> THEN uniquePools
    ELSE LET pool == Head(pools)
             held == {i \in 1..Len(uniquePools) : uniquePools[i].poolId = pool.poolId}
         IN deduplicatePoolsInto(
                IF held = {} THEN Append(uniquePools, pool)
                ELSE [i \in 1..Len(uniquePools) |->
                         IF i \in held /\ uniquePools[i].createdAt < pool.createdAt
                         THEN pool ELSE uniquePools[i]],
                Tail(pools))

deduplicatePools(pools) == deduplicatePoolsInto(<< >>, pools)

\* a cache in which no pool id is found
CachedIdsForgotten(cache) == {}

\* the pool ids of the cached pools
CachedIds(cache) == {pool.poolId : pool \in cache}

\* what a scan leaves for its loop over the pools
Scanning(scan, pools, apiFailureCount) ==
    [bot EXCEPT !.scan = IF pools = << >> THEN "idle" ELSE scan,
                !.validPools = pools,
                !.apiFailureCount = apiFailureCount]

\* scanForNewPools up to its loop: the pools of the demo data or of the
\* APIs, deduplicated and validated (Birdeye has no API key and returns [])
ScanForNewPools ==
    /\ bot.scan = "idle"
    /\ LET useDemo == bot.demoMode \/ bot.apiFailureCount > 3
           fetchedPools ==
               {LET fetched == raydiumPools \o JupiterPools
                IN [i \in 1..Len(fetched) |-> updatePrice(fetched[i], prices)] :
                    raydiumPools \in SeqsUpTo(RaydiumPools({"poolA"}), MaxFetched),
                    prices \in CoinGeckoPrices}
           found == IF useDemo THEN getRandomDemoPools(4)
                    ELSE UNION {IF Len(fetched) = 0 THEN getRandomDemoPools(3)
                                ELSE {fetched} : fetched \in fetchedPools}
       IN \E allPools \in found :
           LET uniquePools == deduplicatePools(allPools)
               validPools == SelectSeq(uniquePools, validatePoolData)
           IN bot' = Scanning("discovery", validPools,
                              IF useDemo THEN 0 ELSE bot.apiFailureCount)
    /\ UNCHANGED <<config, portfolio, positions, actions, now, lastCall,
                   scoring, poolCache, monitor>>

\* scanForNewPools when its try block throws before the loop: the failure is
\* counted and, after more than two failures, demo pools are evaluated as
\* they are
ScanForNewPoolsThrows ==
    /\ bot.scan = "idle"
    /\ \E demoPools \in getRandomDemoPools(2) :
           LET useDemo == bot.demoMode \/ bot.apiFailureCount > 3
               apiFailureCount == (IF useDemo THEN 0 ELSE bot.apiFailureCount) + 1
           IN bot' = Scanning("fallback",
                              IF apiFailureCount > 2 THEN demoPools ELSE << >>,
                              apiFailureCount)
    /\ UNCHANGED <<config, portfolio, positions, actions, now, lastCall,
                   scoring, poolCache, monitor>>

\* one round of the loop of a scan: evaluateAndEnterPool(pool)
EvaluateAndEnterPool ==
    /\ bot.validPools # << >>
    /\ LET pool == Head(bot.validPools)
           detected == logAction(actions, Event("pool_detected", pool.poolId, 0))
           evaluated == logAction(detected, Event("pool_evaluated", pool.poolId, 0))
           evaluation == evaluatePoolForEntry(pool)
           cached == pool.poolId \in CachedIds(poolCache)
       IN /\ bot' = [Scanning(bot.scan, Tail(bot.validPools), bot.apiFailureCount)
                        EXCEPT !.lastEvent = IF cached THEN "poolSkipped"
                                             ELSE "poolEvaluated"]
          /\ IF cached
             THEN UNCHANGED <<config, portfolio, positions, actions, now,
                              lastCall, scoring, poolCache>>
             ELSE /\ poolCache' = poolCache \cup {pool}
                  /\ scoring' = [scoring EXCEPT !.op = bot.scan, !.pool = pool,
                                     !.entry = evaluation]
                  /\ IF evaluation.shouldEnter
                     THEN enterPositionLogging(pool, evaluated)
                     ELSE /\ actions' = evaluated
                          /\ UNCHANGED <<config, portfolio, positions, now, lastCall>>
    /\ UNCHANGED monitor

InitBot ==
    /\ config \in BotConfigs({2}, PositionSizes, {3 * MoneyScale},
                             EntryCriteria, {DefaultExitCriteria})
    /\ \E initialCash \in InitialCashes :
           portfolio = NewPortfolio(config, initialCash)
    /\ positions = << >>
    /\ actions = << >>
    /\ now = EvalNow
    /\ lastCall = NoCall
    /\ scoring = NoScoring
    /\ poolCache = {}
    /\ monitor = NewMonitor
    /\ bot \in {NewBot(enableDemoMode) : enableDemoMode \in BOOLEAN}

NextBot ==
    \/ ScanForNewPools
    \/ ScanForNewPoolsThrows
    \/ EvaluateAndEnterPool

SpecBot == InitBot /\ [][NextBot]_vars

\* ------------------------------------------- the loops of the YieldFarmingBot
\* The two cadences of the bot with their timers; a call of scanForNewPools or
\* of monitorActivePositions is followed from its start to its end through
\* its awaits, and what it does with the pools is left out.

\* a scan that is held back only right after the previous scan
rateLimitedAtOnce == bot.sinceLastPoolScan = 0

\* scanForNewPools: now - this.lastPoolScan < MONITORING.POOL_SCAN_INTERVAL
rateLimited == bot.sinceLastPoolScan < POOL_SCAN_INTERVAL

\* YieldFarmingBot.start: a second start while running returns at once;
\* otherwise startMonitoringLoop and startPositionMonitoringLoop set a new
\* timer each
BotStart ==
    /\ ~bot.isRunning
    /\ bot.monitoringInterval < MaxTimers
    /\ bot.positionInterval < MaxTimers
    /\ bot' = [bot EXCEPT !.isRunning = TRUE, !.monitoringInterval = @ + 1,
                          !.positionInterval = @ + 1]
    /\ UNCHANGED <<config, portfolio, positions, actions, now, lastCall,
                   scoring, poolCache, monitor>>

\* YieldFarmingBot.stop
BotStop ==
    /\ bot' = [bot EXCEPT !.isRunning = FALSE]
    /\ UNCHANGED <<config, portfolio, positions, actions, now, lastCall,
                   scoring, poolCache, monitor>>

\* 15 s pass
BotTick ==
    /\ bot.sinceLastPoolScan < POOL_SCAN_INTERVAL
    /\ bot' = [bot EXCEPT !.sinceLastPoolScan = @ + 1]
    /\ UNCHANGED <<config, portfolio, positions, actions, now, lastCall,
                   scoring, poolCache, monitor>>

\* the callback of monitoringInterval that clears the timer although the bot
\* is running, and starts a scan although it is stopped
ScanTimerFiresStopped ==
    /\ bot.monitoringInterval > 0
    /\ IF bot.isRunning
       THEN bot' = [bot EXCEPT !.monitoringInterval = @ - 1, !.lastEvent = "scanCleared"]
       ELSE /\ bot.scans + bot.fallbacks < MaxCycles
            /\ bot' = [bot EXCEPT !.sinceLastPoolScan = 0, !.scans = @ + 1,
                                  !.lastEvent = "scanStarted"]
    /\ UNCHANGED <<config, portfolio, positions, actions, now, lastCall,
                   scoring, poolCache, monitor>>

\* the callback of a monitoringInterval (startMonitoringLoop) up to the first
\* await of scanForNewPools: the timer fires when it fires, early or late,
\* and when the bot is stopped it clears itself
ScanTimerFires ==
    /\ bot.monitoringInterval > 0
    /\ IF ~bot.isRunning
       THEN bot' = [bot EXCEPT !.monitoringInterval = @ - 1, !.lastEvent = "scanCleared"]
       ELSE IF rateLimited
       THEN bot' = [bot EXCEPT !.lastEvent = "scanSkipped"]
       ELSE LET useDemo == bot.demoMode \/ bot.apiFailureCount > 3
            IN /\ bot.scans + bot.fallbacks < MaxCycles
               /\ bot' = [bot EXCEPT
                      !.sinceLastPoolScan = 0,
                      !.apiFailureCount = IF useDemo THEN 0 ELSE @,
                      !.scans = @ + 1,
                      !.lastEvent = IF useDemo THEN "scanStartedDemo" ELSE "scanStarted"]
    /\ UNCHANGED <<config, portfolio, positions, actions, now, lastCall,
                   scoring, poolCache, monitor>>

\* scanForNewPools returns from its try block
ScanCompletes ==
    /\ bot.scans > 0
    /\ bot' = [bot EXCEPT !.scans = @ - 1, !.lastEvent = "scanCompleted"]
    /\ UNCHANGED <<config, portfolio, positions, actions, now, lastCall,
                   scoring, poolCache, monitor>>

\* the catch block of a scan that also clears the timer
ScanThrowsEndsLoop ==
    /\ bot.scans > 0
    /\ bot' = [bot EXCEPT !.apiFailureCount = @ + 1, !.scans = @ - 1,
                          !.monitoringInterval = 0,
                          !.lastEvent = "scanFailed"]
    /\ UNCHANGED <<config, portfolio, positions, actions, now, lastCall,
                   scoring, poolCache, monitor>>

\* the try block of scanForNewPools throws: its catch block counts the
\* failure and, after more than two, goes on with the demo pools
ScanThrows ==
    /\ bot.scans > 0
    /\ LET apiFailureCount == bot.apiFailureCount + 1
       IN bot' = [bot EXCEPT
              !.apiFailureCount = apiFailureCount,
              !.scans = @ - 1,
              !.fallbacks = IF apiFailureCount > 2 THEN @ + 1 ELSE @,
              !.lastEvent = "scanFailed"]
    /\ UNCHANGED <<config, portfolio, positions, actions, now, lastCall,
                   scoring, poolCache, monitor>>

\* the fallback of the catch block of scanForNewPools returns
FallbackCompletes ==
    /\ bot.fallbacks > 0
    /\ bot' = [bot EXCEPT !.fallbacks = @ - 1, !.lastEvent = "fallbackCompleted"]
    /\ UNCHANGED <<config, portfolio, positions, actions, now, lastCall,
                   scoring, poolCache, monitor>>

\* the fallback throws: scanForNewPools rejects and the catch block of
\* startMonitoringLoop logs a failed event
FallbackThrows ==
    /\ bot.fallbacks > 0
    /\ Len(actions) < MaxLoopEvents
    /\ bot' = [bot EXCEPT !.fallbacks = @ - 1, !.lastEvent = "fallbackFailed"]
    /\ actions' = logAction(actions,
           [Event("pool_detected", "unknown", 0) EXCEPT !.success = FALSE])
    /\ UNCHANGED <<config, portfolio, positions, now, lastCall,
                   scoring, poolCache, monitor>>

\* the callback of positionInterval (startPositionMonitoringLoop) up to the
\* first await of monitorActivePositions, which returns at once when there
\* is no active position (left open here)
PositionTimerFires ==
    /\ bot.positionInterval > 0
    /\ IF ~bot.isRunning
       THEN bot' = [bot EXCEPT !.positionInterval = @ - 1, !.lastEvent = "monitorCleared"]
       ELSE \/ bot' = [bot EXCEPT !.lastEvent = "monitorIdle"]
            \/ /\ bot.monitors < MaxCycles
               /\ bot' = [bot EXCEPT !.monitors = @ + 1, !.lastEvent = "monitorStarted"]
    /\ UNCHANGED <<config, portfolio, positions, actions, now, lastCall,
                   scoring, poolCache, monitor>>

\* monitorActivePositions: the try block of one position throws and its catch
\* block goes on with the next position
MonitorRoundThrows ==
    /\ bot.monitors > 0
    /\ bot' = [bot EXCEPT !.lastEvent = "monitorFailed"]
    /\ UNCHANGED <<config, portfolio, positions, actions, now, lastCall,
                   scoring, poolCache, monitor>>

\* monitorActivePositions returns
MonitorCompletes ==
    /\ bot.monitors > 0
    /\ bot' = [bot EXCEPT !.monitors = @ - 1, !.lastEvent = "monitorCompleted"]
    /\ UNCHANGED <<config, portfolio, positions, actions, now, lastCall,
                   scoring, poolCache, monitor>>

InitLoop ==
    /\ config \in BotConfigs({2}, PositionSizes, {3 * MoneyScale},
                             {DefaultEntryCriteria}, {DefaultExitCriteria})
    /\ \E initialCash \in InitialCashes :
           portfolio = NewPortfolio(config, initialCash)
    /\ positions = << >>
    /\ actions = << >>
    /\ now = 0
    /\ lastCall = NoCall
    /\ scoring = NoScoring
    /\ poolCache = {}
    /\ monitor = NewMonitor
    /\ bot = NewBot(FALSE)

NextLoop ==
    \/ BotStart
    \/ BotStop
    \/ BotTick
    \/ ScanTimerFires
    \/ ScanCompletes
    \/ ScanThrows
    \/ FallbackCompletes
    \/ FallbackThrows
    \/ PositionTimerFires
    \/ MonitorRoundThrows
    \/ MonitorCompletes

SpecLoop == InitLoop /\ [][NextLoop]_vars

\* the steps of the loops when start() is called only once the timers of
\* the run before have cleared themselves
NextLoopFair ==
    \/ (bot.monitoringInterval = 0 /\ bot.positionInterval = 0 /\ BotStart)
    \/ BotStop
    \/ BotTick
    \/ ScanTimerFires
    \/ ScanCompletes
    \/ ScanThrows
    \/ FallbackCompletes
    \/ FallbackThrows
    \/ PositionTimerFires
    \/ MonitorRoundThrows
    \/ MonitorCompletes

\* the loops when time passes, the timers keep firing while they are set and
\* every call in progress comes to its end (the external calls time out);
\* the bot is started again only once the timers of the run before are gone
SpecLoopFair ==
    /\ InitLoop
    /\ [][NextLoopFair]_vars
    /\ WF_vars(BotTick)
    /\ WF_vars(ScanTimerFires)
    /\ WF_vars(PositionTimerFires)
    /\ WF_vars(ScanCompletes \/ ScanThrows)
    /\ WF_vars(FallbackCompletes \/ FallbackThrows)
    /\ WF_vars(MonitorCompletes)

\* ------------------------------------- the monitoring of the active positions
\* monitorActivePositions with the positions it visits: a call copies the
\* active list, awaits getPoolMetrics for one position after the other and
\* handles each answer in one piece; meanwhile positions are entered (by the
\* scans), the clock advances and further calls start (C21).

\* the pools entered here quote the price 10.0 and a yield of 730% a year,
\* 2% a day
MonitoredPools ==
    [poolId : PoolIds, price : {10 * PriceScale}, apy : {730 * ApyScale}]

\* what getPoolMetrics resolves to for a pool held here: a record of the API
\* with the price at 9.8 or at 10.2, or null (<<metrics>> or << >>)
MonitoredMetrics ==
    {<<[apy |-> 730 * ApyScale, tvl |-> 75000, volume24h |-> 25000,
        price |-> price]>> :
        price \in {10 * PriceScale - 1, 10 * PriceScale + 1}}
    \cup {<< >>}

\* evaluateAndEnterPool of a scan, for a pool that passes the evaluation: a
\* pool already cached is left alone, any other is cached and entered
EnterMonitoredPool ==
    /\ \E pool \in MonitoredPools :
           /\ pool.poolId \notin CachedIds(poolCache)
           /\ poolCache' = poolCache \cup {pool}
           /\ LET detected ==
                      logAction(actions, Event("pool_detected", pool.poolId, 0))
                  evaluated ==
                      logAction(detected, Event("pool_evaluated", pool.poolId, 0))
              IN enterPositionLogging(pool, evaluated)
    /\ UNCHANGED <<scoring, monitor, bot>>

\* monitorActivePositions up to its first await
MonitorActivePositions ==
    /\ bot.monitors < MaxCycles
    /\ LET activePositions == portfolio.activePositions
       IN bot' = IF activePositions = << >>
                 THEN [bot EXCEPT !.monitors = @ + 1,
                                  !.lastEvent = "monitorIdle"]
                 ELSE [bot EXCEPT !.monitors = @ + 1,
                                  !.monitoring = Append(@, activePositions),
                                  !.lastEvent = "monitorStarted"]
    /\ UNCHANGED <<config, portfolio, positions, actions, now, lastCall,
                   scoring, poolCache, monitor>>

\* the calls in progress after the call at place cycle has visited a position
VisitedCycleAbandoned(cycle) ==
    SelectSeq([bot.monitoring EXCEPT ![cycle] = << >>],
              LAMBDA activePositions : activePositions # << >>)

\* the cycles still running once `cycle` is through with its first position
Visited(cycle) ==
    LET monitoring == [bot.monitoring EXCEPT ![cycle] = Tail(@)]
    IN SelectSeq(monitoring, LAMBDA activePositions : activePositions # << >>)

\* one round of the loop of monitorActivePositions, from the answer of
\* getPoolMetrics to the next await (or to the return)
MonitorPosition ==
    \E cycle \in 1..Len(bot.monitoring), metrics \in MonitoredMetrics :
        LET id == Head(bot.monitoring[cycle])
        IN IF metrics = << >>
           THEN /\ bot' = [bot EXCEPT !.monitoring = Visited(cycle),
                                      !.lastEvent = "positionSkipped"]
                /\ UNCHANGED <<config, portfolio, positions, actions, now,
                               lastCall, scoring, poolCache, monitor>>
           ELSE LET currentPool == metrics[1]
                    position == UpdatedPosition(positions[id], currentPool)
                    held == [positions EXCEPT ![id] = position]
                    monitored == logAction(actions,
                        Event("position_monitored", position.poolId, id))
                    exitEvaluation == evaluatePositionForExit(position, currentPool)
                IN /\ bot' = [bot EXCEPT !.monitoring = Visited(cycle),
                                         !.lastEvent = "positionMonitored"]
                   /\ scoring' = [scoring EXCEPT
                          !.op = "exit", !.position = position,
                          !.currentPool = [apy |-> currentPool.apy,
                                           tvl |-> currentPool.tvl,
                                           price |-> currentPool.price],
                          !.exit = exitEvaluation]
                   /\ IF exitEvaluation.shouldExit
                      THEN exitPositionLogging(id, currentPool,
                               exitEvaluation.reason, held, monitored)
                      ELSE /\ positions' = held
                           /\ actions' = monitored
                           /\ Record(Call("update", "", id, 1))
                           /\ UNCHANGED <<config, portfolio, now>>
                   /\ UNCHANGED <<poolCache, monitor>>

\* the bot puts $1 into a position here and takes its profit at 1%
InitPositions ==
    /\ config \in BotConfigs({2}, {MoneyScale}, {3 * MoneyScale},
           {DefaultEntryCriteria},
           {[DefaultExitCriteria EXCEPT !.takeProfitPercentage = 1]})
    /\ portfolio = NewPortfolio(config, config.maxTotalInvestment)
    /\ positions = << >>
    /\ actions = << >>
    /\ now = 0
    /\ lastCall = NoCall
    /\ scoring = NoScoring
    /\ poolCache = {}
    /\ monitor = NewMonitor
    /\ bot = NewBot(FALSE)

NextPositions ==
    \/ EnterMonitoredPool
    \/ MonitorActivePositions
    \/ MonitorPosition
    \/ Tick

SpecPositions == InitPositions /\ [][NextPositions]_vars

\* ------------------------------------------------------------ PoolMonitor
\* PoolMonitor.removeDuplicatePools: the first pool of each pair of mints
removeDuplicatePools(pools) ==
    SelectSeq([i \in 1..Len(pools) |->
                  [pool |-> pools[i],
                   seen |-> \E j \in 1..(i - 1) :
                                /\ pools[j].baseMint = pools[i].baseMint
                                /\ pools[j].quoteMint = pools[i].quoteMint]],
              LAMBDA p : ~p.seen)

\* PoolMonitor.updatePoolCache: poolCache.set(pool.poolId, pool) for each pool
updatePoolCache(cache, pools) ==
    LET discovered == {pools[i].pool : i \in 1..Len(pools)}
    IN {pool \in cache : pool.poolId \notin CachedIds(discovered)} \cup discovered

\* the score from which evaluateDiscoveredPools puts a pool on the watchlist
WatchlistScore == 80

\* PoolMonitor.start up to its first scan, and PoolMonitor.stop
Start ==
    /\ ~monitor.isRunning
    /\ monitor' = [monitor EXCEPT !.isRunning = TRUE]
    /\ UNCHANGED <<config, portfolio, positions, actions, now, lastCall,
                   scoring, poolCache, bot>>

Stop ==
    /\ monitor' = [monitor EXCEPT !.isRunning = FALSE]
    /\ UNCHANGED <<config, portfolio, positions, actions, now, lastCall,
                   scoring, poolCache, bot>>

\* this.watchlist.add(pool.poolId) for the pools at the given places
RECURSIVE addToWatchlist(_, _, _)
addToWatchlist(watchlist, pools, i) ==
    IF i > Len(pools) THEN watchlist
    ELSE LET evaluation == evaluatePoolForEntry(pools[i].pool)
             poolId == pools[i].pool.poolId
             listed == \E k \in 1..Len(watchlist) : watchlist[k] = poolId
         IN addToWatchlist(
                IF evaluation.shouldEnter /\ evaluation.score >= WatchlistScore
                   /\ ~listed
                THEN Append(watchlist, poolId) ELSE watchlist,
                pools, i + 1)

\* PoolMonitor.scanAndEvaluate: discoverPools, updatePoolCache and
\* evaluateDiscoveredPools; scoring keeps the last evaluation
ScanAndEvaluate ==
    /\ monitor.isRunning
    /\ \E raydiumPools \in SeqsUpTo(RaydiumPools(PoolIds), MaxFetched) :
           LET allPools == raydiumPools \o JupiterPools
               uniquePools == SelectSeq(removeDuplicatePools(allPools),
                                        LAMBDA p : validatePoolData(p.pool))
               last == uniquePools[Len(uniquePools)].pool
           IN /\ monitor' = [monitor EXCEPT
                      !.poolCache = updatePoolCache(@, uniquePools),
                      !.watchlist = addToWatchlist(@, uniquePools, 1)]
              /\ scoring' = IF uniquePools = << >> THEN scoring
                            ELSE [scoring EXCEPT !.op = "monitor", !.pool = last,
                                      !.entry = evaluatePoolForEntry(last)]
    /\ UNCHANGED <<config, portfolio, positions, actions, now, lastCall,
                   poolCache, bot>>

\* PoolDataService.getPoolMetrics(poolId): simulated metrics for a synthetic
\* pool; for a Raydium pool what the API sends (all 0 if it sends a record
\* without tvl, volume and price), or null.  The result is <<metrics>>, or
\* << >> for null
getPoolMetrics(poolId) ==
    IF poolId \in SyntheticPoolIds
    THEN {<<[apy |-> Tenths(300), tvl |-> 15000, volume24h |-> 6000, price |-> PriceScale]>>,
          <<[apy |-> Tenths(350), tvl |-> 15000, volume24h |-> 6000, price |-> PriceScale]>>}
    ELSE {<<[apy |-> 0, tvl |-> 0, volume24h |-> 0, price |-> 0]>>,
          <<[apy |-> Tenths(200), tvl |-> 75000, volume24h |-> 25000, price |-> PriceScale]>>,
          <<[apy |-> Tenths(300), tvl |-> 75000, volume24h |-> 25000, price |-> PriceScale]>>,
          << >>}

\* Math.abs(((newValue - oldValue) / oldValue) * 100) > percent
changedBy(oldValue, newValue, percent) ==
    IF oldValue = 0 THEN newValue # 0
    ELSE LET change == (newValue - oldValue) * 100
         IN (IF change < 0 THEN -change ELSE change) > percent * oldValue

\* PoolMonitor.analyzePoolChanges(pool, newMetrics): <<updatedPool>> if it
\* re-evaluates, << >> if it does not
analyzePoolChanges(pool, newMetrics) ==
    IF changedBy(pool.apy, newMetrics.apy, 15) \/ changedBy(pool.tvl, newMetrics.tvl, 30)
    THEN <<[pool EXCEPT !.apy = newMetrics.apy, !.tvl = newMetrics.tvl,
                        !.volume24h = newMetrics.volume24h,
                        !.price = newMetrics.price]>>
    ELSE << >>

\* one round of the loop of PoolMonitor.monitorWatchlist, which starts while
\* the monitor is running and goes through the watchlist
MonitorWatchlist ==
    /\ monitor.watchlist # << >>
    /\ monitor.watching > 0 \/ monitor.isRunning
    /\ LET i == IF monitor.watching = 0 THEN 1 ELSE monitor.watching
           poolId == monitor.watchlist[i]
       IN \E metrics \in getPoolMetrics(poolId) :
           LET cached == {pool \in monitor.poolCache : pool.poolId = poolId}
               cachedPool == CHOOSE pool \in cached : TRUE
               updatedPool == analyzePoolChanges(cachedPool, metrics[1])
           IN /\ scoring' = IF metrics = << >> \/ cached = {} \/ updatedPool = << >>
                            THEN scoring
                            ELSE [scoring EXCEPT !.op = "watchlist",
                                      !.pool = updatedPool[1],
                                      !.entry = evaluatePoolForEntry(updatedPool[1])]
              /\ monitor' = [monitor EXCEPT
                      !.watching = IF i = Len(monitor.watchlist) THEN 0 ELSE i + 1]
    /\ UNCHANGED <<config, portfolio, positions, actions, now, lastCall,
                   poolCache, bot>>

InitMonitor ==
    /\ config \in BotConfigs({2}, PositionSizes, {3 * MoneyScale},
                             {DefaultEntryCriteria}, {DefaultExitCriteria})
    /\ \E initialCash \in InitialCashes :
           portfolio = NewPortfolio(config, initialCash)
    /\ positions = << >>
    /\ actions = << >>
    /\ now = EvalNow
    /\ lastCall = NoCall
    /\ scoring = NoScoring
    /\ poolCache = {}
    /\ monitor = NewMonitor
    /\ bot = NewBot(FALSE)

NextMonitor ==
    \/ Start
    \/ Stop
    \/ ScanAndEvaluate
    \/ MonitorWatchlist

SpecMonitor == InitMonitor /\ [][NextMonitor]_vars


\* ------------------------------------------------------------ deduplication
\* The two deduplications of a fetched list, of the bot and of the monitor,
\* applied to lists in which the sources repeat pool ids and pairs of mints.

\* fetched records as far as the deduplications read them: a pool id has its
\* pair of mints, and the sources give their own createdAt
FetchedPools ==
    {[poolId |-> poolId, baseMint |-> baseMint, quoteMint |-> "SOL",
      createdAt |-> createdAt] :
        poolId \in PoolIds, baseMint \in {"mintA", "BONK"}, createdAt \in {1, 2}}

FetchedLists ==
    {pools \in SeqsUpTo(FetchedPools, MaxFetched) :
        \A i, j \in 1..Len(pools) :
            pools[i].poolId = pools[j].poolId
                => pools[i].baseMint = pools[j].baseMint}

InitDedup ==
    /\ config \in BotConfigs({2}, PositionSizes, {3 * MoneyScale},
                             {DefaultEntryCriteria}, {DefaultExitCriteria})
    /\ \E initialCash \in InitialCashes :
           portfolio = NewPortfolio(config, initialCash)
    /\ positions = << >>
    /\ actions = << >>
    /\ now = 2
    /\ lastCall = NoCall
    /\ scoring = NoScoring
    /\ poolCache = {}
    /\ monitor = NewMonitor
    /\ \E allPools \in FetchedLists :
           bot = [NewBot(FALSE) EXCEPT !.allPools = allPools]

\* scanForNewPools: uniquePools = this.deduplicatePools(allPools)
DeduplicatePools ==
    /\ bot.scan = "idle"
    /\ bot' = [bot EXCEPT !.scan = "deduplicated",
                          !.validPools = deduplicatePools(bot.allPools)]
    /\ UNCHANGED <<config, portfolio, positions, actions, now, lastCall,
                   scoring, poolCache, monitor>>

\* scanAndEvaluate: uniquePools = this.removeDuplicatePools(allPools), then
\* updatePoolCache(uniquePools)
RemoveDuplicatePools ==
    /\ monitor.poolCache = {}
    /\ bot.allPools # << >>
    /\ monitor' = [monitor EXCEPT !.poolCache =
                      updatePoolCache(@, removeDuplicatePools(bot.allPools))]
    /\ UNCHANGED <<config, portfolio, positions, actions, now, lastCall,
                   scoring, poolCache, bot>>

NextDedup ==
    \/ DeduplicatePools
    \/ RemoveDuplicatePools

SpecDedup == InitDedup /\ [][NextDedup]_vars


\* ------------------------------------------------- the audit log by itself
\* the bot with an empty audit log
InitLog ==
    /\ config \in BotConfigs({2}, PositionSizes, {3 * MoneyScale},
                             {DefaultEntryCriteria}, {DefaultExitCriteria})
    /\ \E initialCash \in InitialCashes :
           portfolio = NewPortfolio(config, initialCash)
    /\ positions = << >>
    /\ actions = << >>
    /\ now = 0
    /\ lastCall = NoCall
    /\ scoring = NoScoring
    /\ poolCache = {}
    /\ monitor = NewMonitor
    /\ bot = NewBot(FALSE)

\* the n-th call of logAction: its action is told apart by its positionId n
LogAction ==
    /\ lastCall.id < MaxLogged
    /\ LET n == lastCall.id + 1
       IN /\ actions' = logAction(actions, Event("position_monitored", "poolA", n))
          /\ lastCall' = Call("logAction", "poolA", n, Null)
    /\ UNCHANGED <<config, portfolio, positions, now>>
    /\ UNCHANGED botVars

NextLog == LogAction

SpecLog == InitLog /\ [][NextLog]_vars

\* ------------------------------------------------------------ properties
\* the divisions of the ledger are exact on the inputs of this model
ExactArithmetic ==
    \A id \in 1..Len(positions), currentPool \in Snapshots :
        LET position == positions[id]
            amount == position.amount.v
        IN /\ IsFin(position.amount)
           /\ (amount * position.entryApy * timeHeldHours(position))
                  % (HoursPerYearPct * ApyScale) = 0
           /\ position.entryPrice # 0 =>
                  (amount * (currentPool.price - position.entryPrice))
                      % (position.entryPrice * 2) = 0
           /\ IsFin(position.pnl) =>
                  (position.pnl.v * 100 * PctScale) % amount = 0

\* the active positions that target a pool
ActiveInPool(poolId) ==
    {i \in 1..Len(portfolio.activePositions) :
        positions[portfolio.activePositions[i]].poolId = poolId}

\* the state of the ledger proper: portfolio, positions and audit log
ledger == <<portfolio, positions, actions>>

\* C1: each pool id is the target of at most one active position, and an
\* enterPosition that directly follows a successful enterPosition for the
\* same pool is rejected (null), leaving exactly one active position there.
C1_OneActivePositionPerPool ==
    /\ [](\A poolId \in PoolIds : Cardinality(ActiveInPool(poolId)) <= 1)
    /\ [][\A pool \in Pools :
            (/\ lastCall.op = "enter"
             /\ lastCall.poolId = pool.poolId
             /\ enterPosition(pool))
            => /\ lastCall'.ret = Null
               /\ (lastCall.ret # Null
                     => Cardinality(ActiveInPool(pool.poolId)') = 1)]_vars

\* a second enterPosition for a pool was rejected although the ledger has
\* room for a position: the pool already had its active position
C1_Witness ==
    /\ lastCall.op = "enter"
    /\ lastCall.ret = Null
    /\ canEnterNewPosition
    /\ Cardinality(ActiveInPool(lastCall.poolId)) = 1

\* C2: the number of active positions never exceeds config.maxPositions.
C2_ActiveWithinMaxPositions ==
    Len(portfolio.activePositions) <= config.maxPositions

\* the ledger is full and has turned an entry down
C2_Witness ==
    /\ Len(portfolio.activePositions) = config.maxPositions
    /\ lastCall.op = "enter"
    /\ lastCall.ret = Null
    /\ ActiveInPool(lastCall.poolId) = {}

\* C3: totalInvested never exceeds config.maxTotalInvestment.
C3_InvestedWithinMaxTotalInvestment ==
    ~Gt(portfolio.totalInvested, Fin(config.maxTotalInvestment))

\* C4: available cash is never negative.
C4_CashNonNegative == Ge(portfolio.availableCash, Fin(0))

\* C5: totalInvested is the sum of the amounts of the active positions, and
\* the total value of getPortfolioSummary is available cash + totalInvested
\* + the unrealized P&L of the active positions (as the same double).
C5_Reconciles ==
    LET reconciled ==
            Add(Add(portfolio.availableCash, portfolio.totalInvested),
                SumField(portfolio.activePositions, "pnl"))
    IN /\ portfolio.totalInvested = SumField(portfolio.activePositions, "amount")
       /\ TotalValue = reconciled
       /\ lastCall.op = "summary" => lastCall.summary.totalValue = reconciled

\* a summary taken while a re-priced position with a P&L is open
C5_Witness ==
    /\ lastCall.op = "summary"
    /\ \E id \in ActiveSet :
           /\ IsFin(positions[id].pnl)
           /\ positions[id].pnl.v # 0
    /\ portfolio.closedPositions # << >>

\* C6: every position ever created is in exactly one of the active list
\* (status active) and the closed list (status exited); a closed position
\* stays closed and the closed list only grows, by appending.
C6_Lifecycle ==
    /\ [](\A id \in 1..Len(positions) :
            /\ positions[id].id = id
            /\ Cardinality({i \in 1..Len(portfolio.activePositions) :
                               portfolio.activePositions[i] = id})
               + Cardinality({i \in 1..Len(portfolio.closedPositions) :
                               portfolio.closedPositions[i] = id}) = 1
            /\ id \in ActiveSet <=> positions[id].status = "active"
            /\ id \in ClosedSet <=> positions[id].status = "exited")
    /\ [](ActiveSet \cup ClosedSet = 1..Len(positions))
    /\ [][/\ Len(portfolio.closedPositions') >= Len(portfolio.closedPositions)
          /\ SubSeq(portfolio.closedPositions', 1, Len(portfolio.closedPositions))
                 = portfolio.closedPositions
          /\ \A id \in ClosedSet : positions'[id].status = "exited"]_vars

\* an exit of an already exited position has been turned down, and its
\* pool has been entered again under a new id
C6_Witness ==
    /\ lastCall.op = "exit"
    /\ lastCall.ret = Null
    /\ lastCall.id \in ClosedSet
    /\ \E id \in ActiveSet : positions[id].poolId = positions[lastCall.id].poolId

\* the preconditions of enterPosition, as the specification lists them
EnterPreconditionViolated(pool) ==
    \/ Len(portfolio.activePositions) >= config.maxPositions
    \/ Lt(portfolio.availableCash, Fin(config.positionSize))
    \/ Ge(portfolio.totalInvested, Fin(config.maxTotalInvestment))
    \/ ActiveInPool(pool.poolId) # {}

\* C7: enterPosition called while a precondition is violated returns null
\* and changes neither cash, totalInvested, the lists nor the audit log.
C7_RejectedEnterIsNoOp ==
    [][\A pool \in Pools :
          (enterPosition(pool) /\ EnterPreconditionViolated(pool))
          => /\ lastCall'.ret = Null
             /\ UNCHANGED ledger]_vars

\* an entry turned down only because totalInvested has reached the maximum
C7_Witness ==
    /\ lastCall.op = "enter"
    /\ lastCall.ret = Null
    /\ Len(portfolio.activePositions) < config.maxPositions
    /\ Ge(portfolio.availableCash, Fin(config.positionSize))
    /\ ActiveInPool(lastCall.poolId) = {}
    /\ Ge(portfolio.totalInvested, Fin(config.maxTotalInvestment))

\* C8: a successful enterPosition allocates min(positionSize, cash), appends
\* one active position with pnl 0 and currentValue = amount, debits cash,
\* credits totalInvested and appends one position_entered event.
C8_SuccessfulEnter ==
    [][\A pool \in Pools :
          (enterPosition(pool) /\ lastCall'.ret # Null)
          => LET id == lastCall'.ret
                 amount == Min(Fin(config.positionSize), portfolio.availableCash)
                 event == Event("position_entered", pool.poolId, id)
             IN /\ id = Len(positions) + 1
                /\ Len(positions') = id
                /\ \A other \in 1..Len(positions) : positions'[other] = positions[other]
                /\ positions'[id].id = id
                /\ positions'[id].poolId = pool.poolId
                /\ positions'[id].amount = amount
                /\ positions'[id].currentValue = amount
                /\ positions'[id].pnl = Fin(0)
                /\ positions'[id].status = "active"
                /\ portfolio'.activePositions = Append(portfolio.activePositions, id)
                /\ portfolio'.closedPositions = portfolio.closedPositions
                /\ portfolio'.availableCash = Sub(portfolio.availableCash, amount)
                /\ portfolio'.totalInvested = Add(portfolio.totalInvested, amount)
                /\ actions' = IF Len(actions) < MaxActions
                              THEN Append(actions, event)
                              ELSE Append(Tail(actions), event)]_vars

\* an entry has succeeded
C8_Witness ==
    /\ lastCall.op = "enter"
    /\ lastCall.ret # Null
    /\ lastCall.ret \in ActiveSet
    /\ portfolio.closedPositions # << >>

\* C9: exitPosition with an id that is not the id of an active position
\* returns false and changes nothing of the ledger.
C9_ExitOfUnknownIsNoOp ==
    [][\A positionId \in 1..MaxIds, currentPool \in Snapshots, reason \in ExitReasons :
          (exitPosition(positionId, currentPool, reason) /\ positionId \notin ActiveSet)
          => /\ lastCall'.ret = Null
             /\ UNCHANGED ledger]_vars

\* an exit of an id never handed out has been turned down while a position
\* is active
C9_Witness ==
    /\ lastCall.op = "exit"
    /\ lastCall.ret = Null
    /\ lastCall.id > Len(positions)
    /\ ActiveSet # {}

\* C10: a successful exitPosition marks the position exited with exit time,
\* price and reason, moves it from the active to the end of the closed list,
\* credits cash with its final value, debits totalInvested by its amount and
\* appends one position_exited event.
C10_SuccessfulExit ==
    [][\A positionId \in 1..MaxIds, currentPool \in Snapshots, reason \in ExitReasons :
          (exitPosition(positionId, currentPool, reason) /\ positionId \in ActiveSet)
          => LET before == positions[positionId]
                 after == positions'[positionId]
                 event == Event("position_exited", before.poolId, positionId)
             IN /\ lastCall'.ret = 1
                /\ after.status = "exited"
                /\ after.exitTime = now
                /\ after.exitPrice = currentPool.price
                /\ after.exitReason = reason
                /\ after.amount = before.amount
                /\ \A other \in 1..Len(positions) :
                       other # positionId => positions'[other] = positions[other]
                /\ portfolio'.activePositions =
                       SelectSeq(portfolio.activePositions,
                                 LAMBDA id : id # positionId)
                /\ portfolio'.closedPositions =
                       Append(portfolio.closedPositions, positionId)
                /\ portfolio'.availableCash =
                       Add(portfolio.availableCash, after.currentValue)
                /\ portfolio'.totalInvested =
                       Sub(portfolio.totalInvested, before.amount)
                /\ actions' = IF Len(actions) < MaxActions
                              THEN Append(actions, event)
                              ELSE Append(Tail(actions), event)]_vars

\* an exit has succeeded while another position stays active
C10_Witness ==
    /\ lastCall.op = "exit"
    /\ lastCall.ret = 1
    /\ lastCall.id \in ClosedSet
    /\ ActiveSet # {}

\* C11: the final value recorded by exitPosition is amount + (entryYield /
\* 100 / 365 / 24) * hoursHeld * amount + ((currentPrice - entryPrice) /
\* entryPrice) * amount, and pnlPercentage is (finalValue - amount) / amount
\* * 100; a $2 position entered at 20% and price 1.0 and exited 24 hours
\* later at price 1.2 is worth 2 + 2 * 20 / 100 / 365 + 2 * 0.2 dollars.
C11_ExitValueFormula ==
    /\ [][\A positionId \in 1..MaxIds, currentPool \in Snapshots, reason \in ExitReasons :
            (exitPosition(positionId, currentPool, reason) /\ positionId \in ActiveSet)
            => LET before == positions[positionId]
                   after == positions'[positionId]
                   amount == before.amount.v
                   hoursHeld == now - before.entryTime
                   accrual == (amount * before.entryApy * hoursHeld)
                                  \div (100 * ApyScale * 365 * 24)
                   delta == currentPool.price - before.entryPrice
                   finalValue ==
                       IF before.entryPrice # 0
                       THEN Fin(amount + accrual
                                + (amount * delta) \div before.entryPrice)
                       ELSE IF delta > 0 THEN PInf
                       ELSE IF delta < 0 THEN NInf
                       ELSE NaN
               IN /\ IsFin(before.amount)
                  /\ after.currentValue = finalValue
                  /\ after.pnlPercentage =
                         IF IsFin(finalValue)
                         THEN Fin(((finalValue.v - amount) * 100 * PctScale)
                                      \div amount)
                         ELSE finalValue]_vars
    /\ [](\A id \in ClosedSet :
             (/\ positions[id].amount = Fin(2 * MoneyScale)
              /\ positions[id].entryApy = 20 * ApyScale
              /\ positions[id].entryPrice = PriceScale
              /\ positions[id].exitPrice * 10 = 12 * PriceScale
              /\ positions[id].exitTime - positions[id].entryTime = 24)
             => /\ positions[id].currentValue =
                       Fin(2 * MoneyScale + (2 * MoneyScale * 20) \div (100 * 365)
                           + (2 * MoneyScale * 2) \div 10)
                /\ positions[id].pnlPercentage =
                       Fin(20 * PctScale + (20 * PctScale) \div 365))

\* a position entered at 20% and price 1.0 was exited 24 hours later at 1.2
C11_Witness ==
    /\ lastCall.op = "exit"
    /\ lastCall.ret = 1
    /\ lastCall.id \in ClosedSet
    /\ positions[lastCall.id].entryApy = 20 * ApyScale
    /\ positions[lastCall.id].entryPrice = PriceScale
    /\ positions[lastCall.id].exitPrice * 10 = 12 * PriceScale
    /\ positions[lastCall.id].exitTime - positions[lastCall.id].entryTime = 24

\* --------------------------------------------- properties of the evaluator
\* the triggers of the exit policy, as the specification states them
StopLossHit ==
    LET pct == scoring.position.pnlPercentage
    IN \/ pct = NInf
       \/ IsFin(pct) /\ pct.v <= config.stopLossPercentage * PctScale
TakeProfitHit ==
    LET pct == scoring.position.pnlPercentage
    IN \/ pct = PInf
       \/ IsFin(pct) /\ pct.v >= config.takeProfitPercentage * PctScale
YieldBelowFloor == scoring.currentPool.apy < config.exitApyThreshold
MaxHoldingReached == now - scoring.position.entryTime >= config.maxHoldingTime
YieldDeclined ==
    /\ scoring.position.entryApy > 0
    /\ 2 * (scoring.position.entryApy - scoring.currentPool.apy)
           > scoring.position.entryApy
LiquidityRisk ==
    scoring.currentPool.tvl * MoneyScale < scoring.position.amount.v * 10

\* C12: evaluateExit applies stop-loss (HIGH), take-profit (MEDIUM), yield
\* below the floor (MEDIUM), maximum holding time (LOW), yield decline
\* above 50% (MEDIUM), TVL below 10 x amount (HIGH) in this order and
\* returns the first match, or hold with urgency LOW; stop-loss wins over
\* take-profit.
C12_ExitRuleOrder ==
    scoring.op = "exit" =>
        /\ scoring.exit =
               (IF StopLossHit
                THEN [shouldExit |-> TRUE, reason |-> "stop_loss", urgency |-> "high"]
                ELSE IF TakeProfitHit
                THEN [shouldExit |-> TRUE, reason |-> "take_profit", urgency |-> "medium"]
                ELSE IF YieldBelowFloor
                THEN [shouldExit |-> TRUE, reason |-> "apy_below_threshold",
                      urgency |-> "medium"]
                ELSE IF MaxHoldingReached
                THEN [shouldExit |-> TRUE, reason |-> "max_holding_time",
                      urgency |-> "low"]
                ELSE IF YieldDeclined
                THEN [shouldExit |-> TRUE, reason |-> "apy_decline",
                      urgency |-> "medium"]
                ELSE IF LiquidityRisk
                THEN [shouldExit |-> TRUE, reason |-> "low_liquidity",
                      urgency |-> "high"]
                ELSE [shouldExit |-> FALSE, reason |-> "hold", urgency |-> "low"])
        /\ (StopLossHit /\ TakeProfitHit)
               => scoring.exit.reason = "stop_loss" /\ scoring.exit.urgency = "high"

\* a position at once at its stop loss and at its take profit
C12_Witness ==
    /\ scoring.op = "exit"
    /\ StopLossHit
    /\ TakeProfitHit
    /\ scoring.exit.shouldExit

\* C13: a position that satisfies the liquidity-risk trigger together with
\* an opportunistic trigger (take-profit, yield collapse, maximum holding
\* time) is reported with the liquidity-risk reason and urgency HIGH.
C13_LiquidityRiskBeforeOpportunistic ==
    (/\ scoring.op = "exit"
     /\ ~StopLossHit
     /\ LiquidityRisk
     /\ TakeProfitHit \/ YieldBelowFloor \/ MaxHoldingReached)
    => scoring.exit.reason = "low_liquidity" /\ scoring.exit.urgency = "high"

\* the hard gates of the evaluator that was called
GateMinimums ==
    IF scoring.op = "entryTyped"
    THEN [apy |-> MONITOR_POOL_EVALUATION.MIN_APY,
          tvl |-> MONITOR_POOL_EVALUATION.MIN_TVL,
          volume24h |-> MONITOR_POOL_EVALUATION.MIN_VOLUME_24H]
    ELSE [apy |-> config.minApy, tvl |-> config.minTvl,
          volume24h |-> config.minVolume24h]
YieldGateFails == scoring.pool.apy < GateMinimums.apy
TvlGateFails == scoring.pool.tvl < GateMinimums.tvl
VolumeGateFails == scoring.pool.volume24h < GateMinimums.volume24h
GateFails == YieldGateFails \/ TvlGateFails \/ VolumeGateFails

\* C14: a pool record failing a hard gate (yield, else TVL, else volume)
\* gets SKIP with score 0 and exactly one reason, that of the failed gate.
C14_GateFailureScoresZero ==
    (scoring.op \in {"entry", "entryTyped"} /\ GateFails)
    => /\ ~scoring.entry.shouldEnter
       /\ scoring.entry.score = 0
       /\ scoring.entry.reasons =
              (IF YieldGateFails THEN <<"apy_below">>
               ELSE IF TvlGateFails THEN <<"tvl_below">>
               ELSE <<"volume_below">>)

\* C15: a pool record failing a hard gate gets SKIP with the score of the
\* gates checked before the failing one: 0 at the yield gate, the points of
\* the yield gate at the TVL gate, those of both at the volume gate.
C15_GateFailureKeepsEarlierScore ==
    (scoring.op = "entry" /\ GateFails)
    => /\ ~scoring.entry.shouldEnter
       /\ scoring.entry.score =
              (IF YieldGateFails THEN 0
               ELSE IF TvlGateFails THEN 25
               ELSE 25 + 20)

\* a record that passed the yield and TVL gates and failed the volume gate
C15_Witness ==
    /\ scoring.op = "entry"
    /\ ~YieldGateFails
    /\ ~TvlGateFails
    /\ VolumeGateFails
    /\ scoring.entry.score > 0

\* the score of the evaluated record with one input replaced
ScoreWith(field, value) ==
    evaluatePoolForEntry([scoring.pool EXCEPT ![field] = value]).score

\* C16 as stated: for a record passing the three gates, the score is
\* non-decreasing in yield, in TVL and in 24h volume, the rest held fixed.
C16_ScoreMonotone ==
    (scoring.op = "entry" /\ ~GateFails)
    => /\ \A apy \in EvalApys :
              apy >= scoring.pool.apy => ScoreWith("apy", apy) >= scoring.entry.score
       /\ \A tvl \in EvalTvls :
              tvl >= scoring.pool.tvl => ScoreWith("tvl", tvl) >= scoring.entry.score
       /\ \A volume24h \in EvalVolumes :
              volume24h >= scoring.pool.volume24h
              => ScoreWith("volume24h", volume24h) >= scoring.entry.score

\* C16 as amended: the score is non-decreasing in TVL, in yield as long as
\* the increase does not cross the rug-pull ceiling of 100%, and in volume
\* as long as the increase does not take the volume above 10 x TVL.
C16_ScoreMonotoneBelowRedFlags ==
    (scoring.op = "entry" /\ ~GateFails)
    => /\ \A apy \in EvalApys :
              (/\ apy >= scoring.pool.apy
               /\ ~(scoring.pool.apy <= RugPullApy * ApyScale
                      /\ apy > RugPullApy * ApyScale))
              => ScoreWith("apy", apy) >= scoring.entry.score
       /\ \A tvl \in EvalTvls :
              tvl >= scoring.pool.tvl => ScoreWith("tvl", tvl) >= scoring.entry.score
       /\ \A volume24h \in EvalVolumes :
              (/\ volume24h >= scoring.pool.volume24h
               /\ ~(scoring.pool.volume24h <= 10 * scoring.pool.tvl
                      /\ volume24h > 10 * scoring.pool.tvl))
              => ScoreWith("volume24h", volume24h) >= scoring.entry.score

\* a record whose score rises with a larger yield, TVL and volume
C16_Witness ==
    /\ scoring.op = "entry"
    /\ ~GateFails
    /\ \E apy \in EvalApys : ScoreWith("apy", apy) > scoring.entry.score
    /\ \E tvl \in EvalTvls : ScoreWith("tvl", tvl) > scoring.entry.score
    /\ \E volume24h \in EvalVolumes :
           ScoreWith("volume24h", volume24h) > scoring.entry.score

\* C17: the decision is ENTER if and only if the three gates pass and the
\* score is at least the minimum score to enter.
C17_EnterIffGatesAndScore ==
    /\ scoring.op = "entry"
           => (scoring.entry.shouldEnter
                  <=> ~GateFails /\ scoring.entry.score >= MinScoreToEnter)
    /\ scoring.op = "entryTyped"
           => (scoring.entry.shouldEnter
                  <=> /\ ~GateFails
                      /\ scoring.entry.score
                             >= MONITOR_POOL_EVALUATION.MIN_SCORE_TO_ENTER)

\* a record entered with exactly the minimum score
C17_Witness ==
    /\ scoring.op = "entry"
    /\ ~GateFails
    /\ scoring.entry.score = MinScoreToEnter
    /\ scoring.entry.shouldEnter

\* the record of C18: yield 18.5%, TVL 75,000, volume 25,000, age 2 hours,
\* base value equal to quote value, minimums 12% / 100 / 500
IsScenarioC18 ==
    /\ scoring.op = "entry"
    /\ config.minApy = 12 * ApyScale
    /\ config.minTvl = 100
    /\ config.minVolume24h = 500
    /\ scoring.pool.apy = Tenths(185)
    /\ scoring.pool.tvl = 75000
    /\ scoring.pool.volume24h = 25000
    /\ now - scoring.pool.createdAt = 2
    /\ scoring.pool.baseAmount * scoring.pool.price
           = scoring.pool.quoteAmount * PriceScale
    /\ scoring.pool.quoteAmount > 0

\* C18: that record gets ENTER, the sum of the gate points (25 + 20 + 20),
\* the age points (15), the balance points (10) and the volume bonus (5),
\* and no warning.
C18_BalancedFreshPoolEnters ==
    IsScenarioC18
    => /\ scoring.entry.shouldEnter
       /\ scoring.entry.score = 25 + 20 + 20 + 15 + 10 + 5
       /\ scoring.entry.warnings = << >>

\* the record of C18, balanced at a price other than 1
C18_Witness ==
    /\ IsScenarioC18
    /\ scoring.pool.price # PriceScale

\* C19: every pool record that reaches the evaluator, on the discovery path
\* and the fallback path of the bot and on the discovery path and the
\* watchlist re-evaluation of the monitor, satisfies validatePoolData (TVL > 0,
\* yield >= 0, volume >= 0, both token amounts >= 0)
C19_ScoredRecordsAreValid ==
    scoring.op \in {"discovery", "fallback", "monitor", "watchlist"}
        => validatePoolData(scoring.pool)

\* C20: a pool record whose price is not positive never reaches the ledger:
\* no position has entryPrice <= 0
C20_EntryPricePositive ==
    \A id \in 1..Len(positions) : positions[id].entryPrice > 0

C29_AuditLogRingBuffer ==
    lastCall.op = "logAction" =>
        LET n == lastCall.id
            kept == IF n > MaxActions THEN MaxActions ELSE n
        IN /\ Len(actions) <= MaxActions
           /\ Len(actions) = kept
           /\ \A i \in 1..Len(actions) : actions[i].positionId = n - kept + i

\* more than 1000 actions have been logged
C29_Witness ==
    /\ lastCall.op = "logAction"
    /\ lastCall.id > MaxActions + 1
    /\ Len(actions) = MaxActions

\* C27: an exception caught in a cycle leaves the flag and the timers as they
\* were, and while the bot runs a failed discovery cycle is followed by the
\* start of a later discovery cycle, a failed monitoring cycle by a later call
\* of monitorActivePositions, as long as the timers keep firing
C27_LoopSurvivesErrors ==
    /\ [][(ScanThrows \/ FallbackThrows \/ MonitorRoundThrows)
            => /\ bot'.isRunning = bot.isRunning
               /\ bot'.monitoringInterval = bot.monitoringInterval
               /\ bot'.positionInterval = bot.positionInterval]_vars
    /\ (bot.isRunning /\ bot.lastEvent \in {"scanFailed", "fallbackFailed"})
          ~> (~bot.isRunning \/ bot.lastEvent \in {"scanStarted", "scanStartedDemo"})
    /\ (bot.isRunning /\ bot.lastEvent = "monitorFailed")
          ~> (~bot.isRunning \/ bot.lastEvent \in {"monitorStarted", "monitorIdle"})

\* a discovery cycle starts after three failed ones while the bot runs
C27_Witness ==
    /\ bot.isRunning
    /\ bot.apiFailureCount > 2
    /\ bot.lastEvent = "scanStarted"

\* C21: at most one discovery cycle and at most one monitoring cycle is in
\* progress at any time
C21_CyclesNeverOverlap ==
    /\ bot.scans + bot.fallbacks <= 1
    /\ bot.monitors <= 1

\* C22: a firing of the discovery timer before POOL_SCAN_INTERVAL has passed
\* since the start of the previous scan starts nothing and leaves the time of
\* the last scan, the pool cache, the failure counter, the audit log and the
\* ledger as they were
C22_RateLimitedScanIsNoOp ==
    [][(ScanTimerFires /\ bot.isRunning
           /\ bot.sinceLastPoolScan < POOL_SCAN_INTERVAL)
          => /\ bot'.sinceLastPoolScan = bot.sinceLastPoolScan
             /\ bot'.scans = bot.scans
             /\ bot'.fallbacks = bot.fallbacks
             /\ bot'.apiFailureCount = bot.apiFailureCount
             /\ poolCache' = poolCache
             /\ actions' = actions
             /\ scoring' = scoring
             /\ positions' = positions
             /\ portfolio' = portfolio]_vars

\* the timer fired early while the previous scan was still in progress
C22_Witness ==
    /\ bot.isRunning
    /\ bot.lastEvent = "scanSkipped"
    /\ bot.sinceLastPoolScan = 1
    /\ bot.scans = 1

\* C23: while the bot is stopped no discovery and no monitoring cycle begins,
\* a timer that fires clears itself, stop() leaves the cycles in progress as
\* they are, and these come to their end
C23_StopEndsTheLoops ==
    /\ [][~bot.isRunning
            => /\ bot'.scans <= bot.scans
               /\ bot'.monitors <= bot.monitors]_vars
    /\ [][(~bot.isRunning /\ ScanTimerFires)
            => bot'.monitoringInterval = bot.monitoringInterval - 1]_vars
    /\ [][(~bot.isRunning /\ PositionTimerFires)
            => bot'.positionInterval = bot.positionInterval - 1]_vars
    /\ [][BotStop
            => /\ bot'.scans = bot.scans
               /\ bot'.fallbacks = bot.fallbacks
               /\ bot'.monitors = bot.monitors]_vars
    /\ (~bot.isRunning /\ bot.scans + bot.fallbacks + bot.monitors > 0)
          ~> (bot.isRunning \/ bot.scans + bot.fallbacks + bot.monitors = 0)

\* after stop() the discovery timer cleared itself and the scan that was in
\* progress then returned
C23_Witness ==
    /\ ~bot.isRunning
    /\ bot.monitoringInterval = 0
    /\ bot.lastEvent = "scanCompleted"

\* C26: every exception caught in a discovery or monitoring cycle appends an
\* event with success = false to the audit log
C26_ExceptionsAreLogged ==
    [][(ScanThrows \/ FallbackThrows \/ MonitorRoundThrows)
          => /\ actions' # actions
             /\ ~actions'[Len(actions')].success]_vars

\* C28: a discovery cycle that returns without an exception leaves the failure
\* count at zero
C28_SuccessResetsFailureCount ==
    [][ScanCompletes => bot'.apiFailureCount = 0]_vars

\* C24: of a fetched list at most one record per pair (baseMint, quoteMint)
\* survives the deduplication, and it is one created the latest of its pair
C24_OnePoolPerMintPair ==
    LET fetched == {bot.allPools[i] : i \in 1..Len(bot.allPools)}
        samePair(p, q) == p.baseMint = q.baseMint /\ p.quoteMint = q.quoteMint
        deduplicated(survivors) ==
            /\ \A p, q \in survivors : samePair(p, q) => p = q
            /\ \A p \in fetched : \E q \in survivors :
                   samePair(p, q) /\ q.createdAt >= p.createdAt
    IN /\ bot.scan = "deduplicated"
          => deduplicated({bot.validPools[i] : i \in 1..Len(bot.validPools)})
       /\ monitor.poolCache # {} => deduplicated(monitor.poolCache)

\* C25: a pool whose id is in the cache is passed over by evaluateAndEnterPool
\* with the last scoring, the audit log, the ledger and the cache as they
\* were, and the audit log holds at most one pool_evaluated event per pool id
C25_CachedPoolIsSkipped ==
    /\ [][(/\ bot.validPools # << >>
           /\ \E pool \in poolCache : pool.poolId = Head(bot.validPools).poolId
           /\ EvaluateAndEnterPool)
             => /\ scoring' = scoring
                /\ actions' = actions
                /\ positions' = positions
                /\ portfolio' = portfolio
                /\ poolCache' = poolCache]_vars
    /\ [](\A i, j \in 1..Len(actions) :
              (/\ actions[i].type = "pool_evaluated"
               /\ actions[j].type = "pool_evaluated"
               /\ actions[i].poolId = actions[j].poolId) => i = j)

\* a later scan found a pool again that an earlier one had entered
C25_Witness ==
    /\ bot.lastEvent = "poolSkipped"
    /\ portfolio.activePositions # << >>
    /\ \E pool \in poolCache : pool.poolId \in PoolIds

\* C39: the score that evaluatePoolForEntry returns lies between 0 and 100
C39_ScoreWithinHundred ==
    scoring.op \in {"entry", "entryTyped"}
        => /\ scoring.entry.score >= 0
           /\ scoring.entry.score <= 100

\* C34: updatePosition sets currentValue to amount + (entryYield / 100 / 365
\* / 24) * hoursHeld * amount + 0.5 * ((currentPrice - entryPrice) /
\* entryPrice) * amount, currentApy to the yield of the snapshot, pnl and
\* pnlPercentage to match, and leaves every other field of the position, the
\* other positions, cash, totalInvested, the two lists and the audit log as
\* they were
C34_UpdatePositionHalfExposure ==
    [][\A id \in 1..MaxIds, currentPool \in Snapshots :
          (id \in ActiveSet /\ updatePosition(id, currentPool))
          => LET before == positions[id]
                 after == positions'[id]
                 amount == before.amount.v
                 hoursHeld == now - before.entryTime
                 accrual == (amount * before.entryApy * hoursHeld)
                                \div (100 * ApyScale * 365 * 24)
                 delta == currentPool.price - before.entryPrice
                 interimValue ==
                     IF before.entryPrice # 0
                     THEN Fin(amount + accrual
                              + (amount * delta) \div (2 * before.entryPrice))
                     ELSE IF delta > 0 THEN PInf
                     ELSE IF delta < 0 THEN NInf
                     ELSE NaN
             IN /\ IsFin(before.amount)
                /\ after.currentValue = interimValue
                /\ after.currentApy = currentPool.apy
                /\ after.pnl = Sub(interimValue, before.amount)
                /\ after.pnlPercentage =
                       IF IsFin(interimValue)
                       THEN Fin(((interimValue.v - amount) * 100 * PctScale)
                                    \div amount)
                       ELSE interimValue
                /\ after = [before EXCEPT
                                !.currentValue = after.currentValue,
                                !.currentApy = after.currentApy,
                                !.pnl = after.pnl,
                                !.pnlPercentage = after.pnlPercentage]
                /\ \A other \in 1..Len(positions) :
                       other # id => positions'[other] = positions[other]
                /\ Len(positions') = Len(positions)
                /\ portfolio' = portfolio
                /\ actions' = actions]_vars

\* a position entered at price 1.0 is re-priced a day later at price 1.2
\* while another position is closed
C34_Witness ==
    /\ lastCall.op = "update"
    /\ lastCall.id \in ActiveSet
    /\ positions[lastCall.id].entryPrice = PriceScale
    /\ positions[lastCall.id].currentValue =
           Fin(2 * MoneyScale + (2 * MoneyScale * 20) \div (100 * 365)
               + (2 * MoneyScale * 1) \div 10)
    /\ portfolio.closedPositions # << >>

\* C31: what a summary returned by getPortfolioSummary holds, its lists of
\* active and closed positions and their values included, is the same after
\* a later enterPosition, exitPosition or updatePosition as before it
C31_SummaryIsSnapshot ==
    [][(lastCall.op = "summary"
           /\ (EnterPosition \/ ExitPosition \/ UpdatePosition))
          => SummaryContents(lastCall.summary, portfolio', positions')
                 = SummaryContents(lastCall.summary, portfolio, positions)]_vars

\* the closed positions with a profit and with a loss, and the sum of the
\* pnl of a set of positions
Winners == {id \in ClosedSet : Gt(positions[id].pnl, Fin(0))}
Losers == {id \in ClosedSet : Lt(positions[id].pnl, Fin(0))}

RECURSIVE SumPnl(_)
SumPnl(ids) ==
    IF ids = {} THEN Fin(0)
    ELSE LET id == CHOOSE id \in ids : TRUE
         IN Add(positions[id].pnl, SumPnl(ids \ {id}))

\* C33: getPerformanceStats counts the closed positions only; with none it
\* returns zero in every field, and otherwise its profit factor is
\* grossProfit / grossLoss when grossLoss > 0, infinite when there is a
\* profit and no loss, and zero when there is neither
C33_PerformanceStats ==
    lastCall.op = "stats" =>
        LET stats == lastCall.stats
            grossProfit == SumPnl(Winners)
            grossLoss == Abs(SumPnl(Losers))
        IN /\ stats.totalTrades = Len(portfolio.closedPositions)
           /\ stats.winningTrades = Cardinality(Winners)
           /\ stats.losingTrades = Cardinality(Losers)
           /\ portfolio.closedPositions = << >> =>
                  /\ stats.totalTrades = 0
                  /\ stats.winningTrades = 0
                  /\ stats.losingTrades = 0
                  /\ stats.winRate = Fin(0)
                  /\ stats.avgWin = Fin(0)
                  /\ stats.avgLoss = Fin(0)
                  /\ stats.profitFactor = Fin(0)
           /\ portfolio.closedPositions # << >> =>
                  stats.profitFactor =
                      IF Gt(grossLoss, Fin(0))
                      THEN PercentOf(grossProfit, grossLoss)
                      ELSE IF Gt(grossProfit, Fin(0)) THEN PInf
                      ELSE Fin(0)

\* statistics over a closed position with a profit and one with a loss
C33_Witness ==
    /\ lastCall.op = "stats"
    /\ Winners # {}
    /\ Losers # {}
    /\ IsFin(lastCall.stats.profitFactor)
    /\ lastCall.stats.profitFactor.v > 0

\* the cycle of the monitoring rounds whose first position the step took
RoundOf(cycle) ==
    bot'.monitoring =
        SelectSeq([bot.monitoring EXCEPT ![cycle] = Tail(bot.monitoring[cycle])],
                  LAMBDA activePositions : activePositions # << >>)

\* C32: when getPoolMetrics resolves to null for a position, the monitoring
\* cycle skips the position and raises nothing: the position's values and
\* status, the cash, totalInvested and the audit log are as they were, and
\* the positions left in the cycle are still to be visited
C32_AbsentMetricsSkip ==
    [][(MonitorPosition /\ bot'.lastEvent = "positionSkipped") =>
          /\ UNCHANGED <<positions, portfolio, actions, lastCall>>
          /\ \E cycle \in 1..Len(bot.monitoring) :
                 /\ RoundOf(cycle)
                 /\ Tail(bot.monitoring[cycle]) # << >> =>
                        /\ Len(bot'.monitoring) = Len(bot.monitoring)
                        /\ bot'.monitoring[cycle] = Tail(bot.monitoring[cycle])]_vars

\* the first position of the only cycle was skipped and the second is to come
C32_Witness ==
    /\ bot.lastEvent = "positionSkipped"
    /\ bot.monitors = 1
    /\ Len(bot.monitoring) = 1
    /\ Len(bot.monitoring[1]) = 1
    /\ Len(portfolio.activePositions) = 2

\* C35: once a position is closed, the currentValue, pnl and pnlPercentage
\* recorded for it never change again, also when a monitoring cycle that
\* captured the position before its exit resumes and calls updatePosition
C35_ClosedValuesFrozen ==
    [][\A id \in 1..Len(positions) :
          positions[id].status = "exited" =>
              /\ positions'[id].currentValue = positions[id].currentValue
              /\ positions'[id].pnl = positions[id].pnl
              /\ positions'[id].pnlPercentage = positions[id].pnlPercentage]_vars

\* C36: money is conserved under any interleaving of the cycles: the total
\* value that getPortfolioSummary computes minus its totalPnl is the starting
\* cash, i.e. cash + sum of active currentValue = starting cash + sum of
\* active pnl + sum of closed pnl
C36_MoneyConserved ==
    Sub(TotalValue, TotalPnl) = Fin(config.maxTotalInvestment)

\* the positions that the step exits
NewlyExited ==
    {id \in 1..Len(positions) :
        positions[id].status = "active" /\ positions'[id].status = "exited"}

\* C37: the final value of a position is credited to the cash exactly once
\* and totalInvested is debited exactly once, also when two monitoring
\* cycles that hold the same position both decide to exit it: the second
\* exitPosition for the id returns false and changes nothing
C37_ExitedOnce ==
    [][/\ \A id \in 1..Len(positions) :
              positions[id].status = "exited" => positions'[id].status = "exited"
       /\ \A id \in NewlyExited :
              /\ NewlyExited = {id}
              /\ portfolio'.availableCash =
                     Add(portfolio.availableCash, positions'[id].currentValue)
              /\ portfolio'.totalInvested =
                     Sub(portfolio.totalInvested, positions[id].amount)
       /\ (NewlyExited = {} /\ Len(positions') = Len(positions)) =>
              portfolio' = portfolio
       /\ (/\ MonitorPosition
           /\ bot'.lastEvent = "positionMonitored"
           /\ scoring'.exit.shouldExit
           /\ positions[scoring'.position.id].status = "exited") =>
              LET id == scoring'.position.id
              IN /\ lastCall' = Call("exit", "", id, Null)
                 /\ portfolio' = portfolio
                 /\ positions'[id].exitTime = positions[id].exitTime
                 /\ positions'[id].exitPrice = positions[id].exitPrice
                 /\ positions'[id].exitReason = positions[id].exitReason
                 /\ actions' = logAction(actions,
                        Event("position_monitored", positions[id].poolId, id))]_vars

\* a cycle decided to exit a position that another cycle had exited, while
\* a second position is active
C37_Witness ==
    /\ bot.lastEvent = "positionMonitored"
    /\ scoring.op = "exit"
    /\ scoring.exit.shouldExit
    /\ lastCall = Call("exit", "", scoring.position.id, Null)
    /\ positions[scoring.position.id].status = "exited"
    /\ portfolio.closedPositions = <<scoring.position.id>>
    /\ Len(portfolio.activePositions) = 1

\* the round of a monitoring cycle exits position id on the take-profit rule
TakesProfit(id) ==
    /\ MonitorPosition
    /\ bot'.lastEvent = "positionMonitored"
    /\ scoring'.exit.reason = "take_profit"
    /\ scoring'.position.id = id
    /\ id \in NewlyExited

\* C40 as stated: when a monitoring cycle exits a position because the
\* take-profit rule fired on the interim pnlPercentage, the realized
\* pnlPercentage that exitPosition records is at least the take-profit
\* threshold too
C40_RealizedTakeProfit ==
    [][\A id \in 1..Len(positions) :
          TakesProfit(id) =>
              Ge(positions'[id].pnlPercentage,
                 Fin(config.takeProfitPercentage * PctScale))]_vars

\* C40, amended: when a monitoring cycle exits a position because the
\* take-profit rule fired and the price at the exit is not below the
\* (positive) entry price, the realized pnlPercentage that exitPosition
\* records is at least the take-profit threshold too
C40_RealizedTakeProfitPriceNotBelow ==
    [][\A id \in 1..Len(positions) :
          (/\ TakesProfit(id)
           /\ positions[id].entryPrice > 0
           /\ scoring'.currentPool.price >= positions[id].entryPrice) =>
              Ge(positions'[id].pnlPercentage,
                 Fin(config.takeProfitPercentage * PctScale))]_vars

\* a cycle has just taken the profit of a position whose price had risen
C40_Witness ==
    /\ bot.lastEvent = "positionMonitored"
    /\ scoring.op = "exit"
    /\ scoring.exit.reason = "take_profit"
    /\ lastCall = Call("exit", "", scoring.position.id, 1)
    /\ LET position == positions[scoring.position.id]
       IN /\ position.status = "exited"
          /\ position.exitReason = "take_profit"
          /\ position.exitPrice > position.entryPrice
          /\ Ge(position.pnlPercentage,
                Fin(config.takeProfitPercentage * PctScale))

\* C38: for any sequence of start() and stop() calls at most one discovery
\* timer and at most one monitoring timer is live, also after a stop()
\* followed by a start() before the old timers have fired again
C38_OneTimerPerCadence ==
    /\ bot.monitoringInterval <= 1
    /\ bot.positionInterval <= 1

====
